---- MODULE Spec2Model ----
(***************************************************************************)
(* SMPP v3.4 server core: the session state machine (session.py), the      *)
(* server adapter with its outbound dispatcher and event consumer          *)
(* (server.py), the codec's classification of inbound frames (codec.py,    *)
(* pdu.py) and the queues of utils.py.                                     *)
(*                                                                         *)
(* Scheduling is asyncio's: one step of the model is what one task does    *)
(* between two suspension points (a read with no data, the wait for a      *)
(* future, a sleep, a queue get on an empty queue).  Writes on a transport *)
(* that is up complete at once; a transport the peer has reset refuses     *)
(* writes (Connection.write raises ConnectionError).                       *)
(***************************************************************************)
EXTENDS Integers, Sequences, FiniteSets, TLC

\* ------------------------------------------------------------------ bounds
NumConn == 2
MaxMsgs == 1
MaxSeq == 2
MaxPeerSeq == 2
MaxSessions == 2

\* ------------------------------------------------------- program constants
max_retries == 3
SMPP_HEADER_SIZE == 16
SMPP_MAX_PDU_SIZE == 65535

Conns == 1..NumConn
MsgIds == 1..MaxMsgs
PeerSeqs == 1..MaxPeerSeq

\* SessionState
BoundStates == {"BOUND_TX", "BOUND_RX", "BOUND_TRX"}
SessionState == {"OPEN", "UNBOUND", "CLOSED"} \cup BoundStates

\* CommandId: the names the enumeration knows; "0x0000000C" stands for a
\* 32-bit value the enumeration does not hold.
BindCommands == {"bind_transceiver", "bind_transmitter", "bind_receiver"}
PDU_REGISTRY ==
    BindCommands \cup
    {"bind_transceiver_resp", "bind_transmitter_resp", "bind_receiver_resp",
     "unbind", "unbind_resp", "enquire_link", "enquire_link_resp",
     "submit_sm", "submit_sm_resp", "deliver_sm", "deliver_sm_resp",
     "generic_nack"}
CommandId == PDU_REGISTRY \cup {"outbind", "query_sm"}
UnknownCommandId == "0x0000000C"

\* CommandStatus: the statuses used here; "0x00000009" is a value the
\* enumeration does not hold.
CommandStatus ==
    {"ESME_ROK", "ESME_RINVCMDID", "ESME_RINVBNDSTS", "ESME_RALYBND",
     "ESME_RSYSERR", "ESME_RBINDFAIL", "ESME_RX_T_APPN"}
UnknownStatus == "0x00000009"

\* A PDU as the session handles or writes it.  message_id 0 is the empty
\* string; esm_class 4 marks a delivery receipt; TON and NPI 0 are UNKNOWN.
PDU(cmd, status, seq) ==
    [command_id |-> cmd, command_status |-> status, sequence_number |-> seq,
     system_id |-> "", password |-> "", message_id |-> 0, esm_class |-> 0,
     registered_delivery |-> 0, body_ok |-> TRUE, text_ok |-> TRUE,
     source_addr |-> "", source_addr_ton |-> 0, source_addr_npi |-> 0,
     destination_addr |-> "", dest_addr_ton |-> 0, dest_addr_npi |-> 0]

NoPdu == PDU("none", "ESME_ROK", 0)

\* What the task awaiting a response reads of it: its class and status.
Header(pdu) ==
    [command_id |-> pdu.command_id, command_status |-> pdu.command_status,
     sequence_number |-> pdu.sequence_number]

\* The server's system_id (SMPPServerAdapter.system_id)
SMSC == "SMSC"

\* ---------------------------------------------------------- inbound frames
\* What a peer may put on the wire: complete frames, given by the header
\* fields and what the body decoders will make of the body.
BindFrames ==
    {[PDU(cmd, "ESME_ROK", s) EXCEPT !.system_id = "ESME", !.password = pw] :
        cmd \in BindCommands, s \in PeerSeqs, pw \in {"secret", "wrong"}}

\* A submit_sm from a NATIONAL/ISDN address to an INTERNATIONAL/DATA one.
SubmitFrom(pdu) ==
    [pdu EXCEPT !.source_addr = "1001", !.source_addr_ton = 2,
                !.source_addr_npi = 1, !.destination_addr = "2002",
                !.dest_addr_ton = 1, !.dest_addr_npi = 3]

SubmitFrames ==
    {SubmitFrom([PDU("submit_sm", "ESME_ROK", s)
                    EXCEPT !.registered_delivery = rd, !.text_ok = ok]) :
        s \in PeerSeqs, rd \in {0, 1, 2}, ok \in BOOLEAN}

PlainFrames ==
    {PDU(cmd, "ESME_ROK", s) :
        cmd \in {"unbind", "enquire_link", "enquire_link_resp", "deliver_sm",
                 "generic_nack", "outbind", UnknownCommandId},
        s \in PeerSeqs}

DeliverRespFrames ==
    {PDU("deliver_sm_resp", st, s) :
        st \in {"ESME_ROK", "ESME_RX_T_APPN"}, s \in PeerSeqs}

OddFrames ==
    {SubmitFrom([PDU("submit_sm", "ESME_ROK", s) EXCEPT !.body_ok = FALSE]) :
        s \in PeerSeqs}
    \cup {PDU("enquire_link", UnknownStatus, s) : s \in PeerSeqs}

Frames == BindFrames \cup SubmitFrames \cup PlainFrames
          \cup DeliverRespFrames \cup OddFrames

\* SMPPCodec.decode that lets every body pass.
Decode_BodyUnchecked(frame) ==
    IF frame.command_id \notin CommandId THEN "ValueError"
    ELSE IF frame.command_status \notin CommandStatus THEN "ValueError"
    ELSE IF frame.command_id \notin PDU_REGISTRY THEN "SMPPDecodeError"
    ELSE "ok"

\* SMPPCodec.decode on a complete frame: "ValueError" when PDUHeader.decode
\* cannot build the enumerations (outside decode's own try), then
\* "SMPPDecodeError" for a command without a PDU class or a body that does
\* not decode, else "ok".
Decode(frame) ==
    IF frame.command_id \notin CommandId THEN "ValueError"
    ELSE IF frame.command_status \notin CommandStatus THEN "ValueError"
    ELSE IF frame.command_id \notin PDU_REGISTRY THEN "SMPPDecodeError"
    ELSE IF ~frame.body_ok THEN "SMPPDecodeError"
    ELSE "ok"

\* create_bind_response
create_bind_response(pdu, system_id, status) ==
    [PDU(IF pdu.command_id = "bind_transceiver" THEN "bind_transceiver_resp"
         ELSE IF pdu.command_id = "bind_transmitter" THEN "bind_transmitter_resp"
         ELSE "bind_receiver_resp",
         status, pdu.sequence_number) EXCEPT !.system_id = system_id]

\* A bind handler that ignores the bind type.
BoundStateOf_AlwaysTRX(cmd) == "BOUND_TRX"

\* The state a bind request selects (_handle_bind, the isinstance chain)
BoundStateOf(cmd) ==
    IF cmd = "bind_transceiver" THEN "BOUND_TRX"
    ELSE IF cmd = "bind_transmitter" THEN "BOUND_TX"
    ELSE "BOUND_RX"

\* A counter that hands its first number out again and again.
next_sequence_Reused(n) == IF n = 0 THEN 1 ELSE n

\* SMPPSession._next_sequence: the number it returns, and the new _sequence
next_sequence(n) == n + 1

\* SMPPSession.can_receive / can_transmit / is_bound
can_receive(st) == st \in {"BOUND_RX", "BOUND_TRX"}
can_transmit(st) == st \in {"BOUND_TX", "BOUND_TRX"}
is_bound(st) == st \in BoundStates

\* The credential check the deployment injects (auth_callback): it accepts
\* one password.
auth_callback_AcceptAll(system_id, password) == TRUE

auth_callback(system_id, password) == password = "secret"

\* ------------------------------------------------------------------- state
VARIABLES
    running,                  \* SMPPServerAdapter._running
    listening,                \* TCPServer._server accepts connections
    paused,                   \* per connection: the transport has paused
                              \* writing, writer.drain() suspends
    in_flight,                \* per connection: the tasks suspended in
                              \* Connection.write
    has_auth,                 \* auth_callback is not None
    has_event_queue,          \* event_queue is not None
    sessions,                 \* _sessions: connection ids in insertion order
    transport,                \* per connection: "none", "up", "reset", "closed"
    state,                    \* SMPPSession.state
    client_system_id,         \* SMPPSession.client_system_id
    sequence,                 \* SMPPSession._sequence
    pending_responses,        \* keys of SMPPSession._pending_responses
    futures,                  \* the futures registered under those keys
    idle,                     \* no read since the keepalive went to sleep
    keepalive,                \* the keepalive task: its position and request
    dispatcher,               \* the _process_outgoing task
    consumer,                 \* the _process_events task
    retry_counts,             \* _process_outgoing's retry_counts (0: no entry)
    outgoing,                 \* sms_queue.outgoing (message ids)
    incoming,                 \* sms_queue.incoming (message ids)
    next_message_id,          \* message ids generated so far
    messages,                 \* the SMSMessage objects, by message id
    pending_delivery_reports, \* message id -> report info (NoReport: no entry)
    event_queue,              \* EventQueue._queue
    delivered_time,           \* SMSMessage.delivered_time is set
    generation,               \* sessions created so far under a connection id
    reader,                   \* _read_pdu: bytes held in _buffer and the
                              \* pdu_length it waits for (0: none)
    submitter,                \* history: which session of its connection id
                              \* submitted a message (0: none)
    emitted,                  \* history: events emitted per message id
    refused,                  \* history: sessions whose deliver_message
                              \* returned False on the state check
    codec,                    \* a PDU on its way through SMPPCodec.encode
                              \* and SMPPCodec.decode
    stream                    \* per connection: the bytes its peer sends,
                              \* how many were read, the bytes of
                              \* SMPPSession._buffer and the slices given
                              \* to SMPPCodec.decode so far

confVars == <<has_auth, has_event_queue>>
flowVars == <<paused, in_flight>>
sessVars == <<state, client_system_id, sequence, pending_responses, futures,
              idle, keepalive>>
queueVars == <<outgoing, incoming, next_message_id, messages,
               pending_delivery_reports, event_queue, retry_counts,
               delivered_time>>
histVars == <<emitted, refused>>
vars == <<running, listening, confVars, codec, stream, flowVars, generation, submitter, reader, sessions,
          transport,
          sessVars, dispatcher,
          consumer, queueVars, histVars>>

\* A future of _pending_responses: none registered, pending, cancelled, or
\* done with the PDU that completed it (kept as its header).
NoFuture == [st |-> "none", pdu |-> Header(NoPdu)]
Pending == [st |-> "pending", pdu |-> Header(NoPdu)]
Cancelled == [st |-> "cancelled", pdu |-> Header(NoPdu)]
Done(pdu) == [st |-> "done", pdu |-> Header(pdu)]

\* The deployments: main.py's (no credential check, no event queue) and
\* the fully configured adapter.
Deployments == {<<FALSE, FALSE>>, <<TRUE, TRUE>>}

\* SMPPSession._buffer is empty and _read_pdu waits for a header.
EmptyReader == [buffer |-> 0, pdu_length |-> 0]

\* A task of the adapter: where it is, the message it works on, the
\* sessions still to try, and the request it awaits the response of.
IdleTask ==
    [pc |-> "get", sms |-> 0, rest |-> <<>>, conn |-> 0, seq |-> 0,
     pdu |-> NoPdu]

\* utils.SMSMessage (message_id 0: no object)
SMSMessage(mid, sender, recipient) ==
    [message_id |-> mid, sender |-> sender, recipient |-> recipient]

NoMessage == SMSMessage(0, "", "")

\* A handler that takes the destination for the sender.
on_submit_sm_Swapped(mid, pdu) ==
    SMSMessage(mid, pdu.destination_addr, pdu.source_addr)

\* _on_submit_sm: the SMSMessage it creates (mid: the generated id)
on_submit_sm(mid, pdu) ==
    SMSMessage(mid, pdu.source_addr, pdu.destination_addr)

\* A handler that takes any bit of registered_delivery for a request.
ReceiptRequested_AnyBit(pdu) == pdu.registered_delivery # 0

\* _on_submit_sm: bit 0 of registered_delivery asks for a receipt
ReceiptRequested(pdu) == pdu.registered_delivery % 2 = 1

\* _on_submit_sm: the entry of _pending_delivery_reports
ReportInfo(c, pdu) ==
    [session_id |-> c, source |-> pdu.source_addr,
     destination |-> pdu.destination_addr,
     source_ton |-> pdu.source_addr_ton, source_npi |-> pdu.source_addr_npi,
     dest_ton |-> pdu.dest_addr_ton, dest_npi |-> pdu.dest_addr_npi]

NoReport == ReportInfo(0, NoPdu)

\* A peer with nothing to send, byte by byte.
NoStream == [bytes |-> <<>>, sent |-> 0, buffer |-> <<>>, handed |-> <<>>]

\* No PDU is given to the codec on its own.
NoCodec == [pc |-> "none", pdu |-> <<>>, data |-> <<>>, decoded |-> <<>>]

\* The adapter after start().
AdapterInit ==
    /\ running = TRUE
    /\ listening = TRUE
    /\ paused = [c \in Conns |-> FALSE]
    /\ in_flight = [c \in Conns |-> {}]
    /\ \E d \in Deployments : has_auth = d[1] /\ has_event_queue = d[2]
    /\ generation = [c \in Conns |-> 0]
    /\ reader = [c \in Conns |-> EmptyReader]
    /\ submitter = [m \in MsgIds |-> 0]
    /\ sessions = <<>>
    /\ transport = [c \in Conns |-> "none"]
    /\ state = [c \in Conns |-> "OPEN"]
    /\ client_system_id = [c \in Conns |-> ""]
    /\ sequence = [c \in Conns |-> 0]
    /\ pending_responses = [c \in Conns |-> {}]
    /\ futures = [c \in Conns |-> [s \in 1..MaxSeq |-> NoFuture]]
    /\ idle = [c \in Conns |-> TRUE]
    /\ keepalive = [c \in Conns |-> [pc |-> "none", seq |-> 0]]
    /\ dispatcher = IdleTask
    /\ consumer = IF has_event_queue THEN IdleTask
                  ELSE [IdleTask EXCEPT !.pc = "none"]
    /\ retry_counts = [m \in MsgIds |-> 0]
    /\ outgoing = <<>>
    /\ incoming = <<>>
    /\ next_message_id = 0
    /\ messages = [m \in MsgIds |-> NoMessage]
    /\ pending_delivery_reports = [m \in MsgIds |-> NoReport]
    /\ event_queue = <<>>
    /\ delivered_time = [m \in MsgIds |-> FALSE]
    /\ emitted = [m \in MsgIds |-> [delivered |-> 0, failed |-> 0]]
    /\ refused = {}

Init ==
    /\ AdapterInit
    /\ codec = NoCodec
    /\ stream = [c \in Conns |-> NoStream]

\* ----------------------------------------------------------------- helpers
Remove(seq, x) == SelectSeq(seq, LAMBDA y : y # x)
InSeq(seq, x) == \E i \in 1..Len(seq) : seq[i] = x

\* The task that awaits the future registered on c under s, if any.
DispatcherAwaits(c, s) ==
    dispatcher.pc = "wait" /\ dispatcher.conn = c /\ dispatcher.seq = s
ConsumerAwaits(c, s) ==
    consumer.pc = "wait" /\ consumer.conn = c /\ consumer.seq = s
KeepaliveAwaits(c, s) ==
    keepalive[c].pc = "wait" /\ keepalive[c].seq = s

\* ------------------------------------------------------------------- write
\* The tasks that call Connection.write on a session's connection: run's
\* loop, the _keepalive_loop task, _process_outgoing and _process_events.
Writers == {"session", "keepalive", "dispatcher", "consumer"}

\* Connection.write called by task t with no lock held: writer.write puts
\* the whole PDU into the transport's buffer at once, then
\* "await writer.drain()" suspends the caller for as long as the transport
\* has paused writing and returns at once when it has not.
Drain(c, t) ==
    IF paused[c] THEN [in_flight EXCEPT ![c] = @ \cup {t}] ELSE in_flight

\* Task t is not suspended in a write on c.
Free(c, t) == t \notin in_flight[c]

\* ---------------------------------------------------------------- teardown
\* SMPPSession._cleanup, then _handle_connection's finally (the registry
\* entry is popped) and TCPServer._handle_client's finally (the connection
\* is closed).  The keepalive task is cancelled; the futures still
\* registered are cancelled, which the dispatcher or the event consumer
\* awaiting one of them sees when it next runs.
CleanupFutures(c) ==
    [s \in 1..MaxSeq |->
        IF s \in pending_responses[c]
           /\ (DispatcherAwaits(c, s) \/ ConsumerAwaits(c, s))
        THEN Cancelled ELSE
        IF KeepaliveAwaits(c, s) THEN NoFuture ELSE futures[c][s]]

\* A teardown that leaves the session in the registry.
Teardown_KeepRegistered(c) ==
    /\ state' = [state EXCEPT ![c] = "CLOSED"]
    /\ keepalive' = [keepalive EXCEPT ![c] = [pc |-> "ended", seq |-> 0]]
    /\ futures' = [futures EXCEPT ![c] = CleanupFutures(c)]
    /\ pending_responses' = [pending_responses EXCEPT ![c] = {}]
    /\ sessions' = sessions
    /\ transport' = [transport EXCEPT ![c] = "closed"]
    /\ paused' = [paused EXCEPT ![c] = FALSE]
    /\ in_flight' = [in_flight EXCEPT ![c] = {}]

Teardown(c) ==
    /\ state' = [state EXCEPT ![c] = "CLOSED"]
    /\ keepalive' = [keepalive EXCEPT ![c] = [pc |-> "ended", seq |-> 0]]
    /\ futures' = [futures EXCEPT ![c] = CleanupFutures(c)]
    /\ pending_responses' = [pending_responses EXCEPT ![c] = {}]
    /\ sessions' = Remove(sessions, c)
    /\ transport' = [transport EXCEPT ![c] = "closed"]
    /\ paused' = [paused EXCEPT ![c] = FALSE]
    /\ in_flight' = [in_flight EXCEPT ![c] = {}]

\* ------------------------------------------------------------------ accept
\* TCPServer._handle_client and SMPPServerAdapter._handle_connection: a
\* session in OPEN is registered under the connection id and run() starts
\* its keepalive task.
Connect(c) ==
    /\ listening
    /\ transport[c] = "none"
    /\ transport' = [transport EXCEPT ![c] = "up"]
    /\ generation' = [generation EXCEPT ![c] = 1]
    /\ sessions' = Append(sessions, c)
    /\ keepalive' = [keepalive EXCEPT ![c] = [pc |-> "sleep", seq |-> 0]]
    /\ UNCHANGED <<running, listening, confVars, codec, stream, flowVars, submitter, reader, state, client_system_id, sequence,
                   pending_responses, futures, idle, dispatcher, consumer,
                   queueVars, histVars>>

\* A new connection arrives from the address and port of one that has
\* been closed: Connection.__post_init__ gives it the same id, and a new
\* session (OPEN, its own counter and map) is registered under it.  It is
\* taken once no task is left awaiting a promise of the old session.
Reconnect(c) ==
    /\ listening
    /\ transport[c] = "closed"
    /\ generation[c] < MaxSessions
    /\ ~(dispatcher.pc = "wait" /\ dispatcher.conn = c)
    /\ ~(consumer.pc = "wait" /\ consumer.conn = c)
    /\ \A s \in 1..MaxSeq : futures[c][s] = NoFuture
    /\ generation' = [generation EXCEPT ![c] = @ + 1]
    /\ reader' = [reader EXCEPT ![c] = EmptyReader]
    /\ transport' = [transport EXCEPT ![c] = "up"]
    /\ sessions' = Append(sessions, c)
    /\ state' = [state EXCEPT ![c] = "OPEN"]
    /\ client_system_id' = [client_system_id EXCEPT ![c] = ""]
    /\ sequence' = [sequence EXCEPT ![c] = 0]
    /\ pending_responses' = [pending_responses EXCEPT ![c] = {}]
    /\ idle' = [idle EXCEPT ![c] = TRUE]
    /\ keepalive' = [keepalive EXCEPT ![c] = [pc |-> "sleep", seq |-> 0]]
    /\ UNCHANGED <<running, listening, confVars, codec, stream, flowVars, submitter, futures, dispatcher,
                   consumer, queueVars, histVars>>

\* ------------------------------------------------------- session handlers
\* SMPPServerAdapter._on_bind
on_bind(pdu) ==
    IF has_auth THEN auth_callback(pdu.system_id, pdu.password) ELSE TRUE

\* A bind handler without the check that the session is in OPEN.
handle_bind_AnyState(c, pdu) ==
    IF ~on_bind(pdu) THEN
        [state |-> state[c], client_system_id |-> client_system_id[c],
         resp |-> create_bind_response(pdu, SMSC, "ESME_RBINDFAIL")]
    ELSE
        [state |-> BoundStateOf(pdu.command_id),
         client_system_id |-> pdu.system_id,
         resp |-> create_bind_response(pdu, SMSC, "ESME_ROK")]

\* SMPPSession._handle_bind: the new state, the new client_system_id and
\* the response.
handle_bind(c, pdu) ==
    IF state[c] # "OPEN" THEN
        [state |-> state[c], client_system_id |-> client_system_id[c],
         resp |-> create_bind_response(pdu, SMSC, "ESME_RALYBND")]
    ELSE IF ~on_bind(pdu) THEN
        [state |-> state[c], client_system_id |-> client_system_id[c],
         resp |-> create_bind_response(pdu, SMSC, "ESME_RBINDFAIL")]
    ELSE
        [state |-> BoundStateOf(pdu.command_id),
         client_system_id |-> pdu.system_id,
         resp |-> create_bind_response(pdu, SMSC, "ESME_ROK")]

\* SMPPSession._handle_unbind
handle_unbind(c, pdu) ==
    [state |-> "UNBOUND",
     resp |-> PDU("unbind_resp", "ESME_ROK", pdu.sequence_number)]

\* SMPPSession._handle_enquire_link
handle_enquire_link(c, pdu) ==
    PDU("enquire_link_resp", "ESME_ROK", pdu.sequence_number)

\* SMPPSession._handle_submit_sm, the state check
SubmitAllowed(st) == st \in {"BOUND_TX", "BOUND_TRX"}

\* _handle_submit_sm without its try: what on_message raises reaches run.
handle_submit_sm_Propagates(c, pdu) ==
    IF ~SubmitAllowed(state[c]) THEN
        [outcome |-> "refused",
         resp |-> PDU("submit_sm_resp", "ESME_RINVBNDSTS", pdu.sequence_number)]
    ELSE IF ~pdu.text_ok THEN
        [outcome |-> "fatal",
         resp |-> PDU("submit_sm_resp", "ESME_RSYSERR", pdu.sequence_number)]
    ELSE
        [outcome |-> "accepted",
         resp |-> [PDU("submit_sm_resp", "ESME_ROK", pdu.sequence_number)
                     EXCEPT !.message_id = next_message_id + 1]]

\* SMPPSession._handle_submit_sm with SMPPServerAdapter._on_submit_sm as
\* its on_message: "refused" (wrong state), "error" (the handler raised:
\* _decode_message could not decode the text) or "accepted" with the id of
\* the new SMSMessage.
handle_submit_sm(c, pdu) ==
    IF ~SubmitAllowed(state[c]) THEN
        [outcome |-> "refused",
         resp |-> PDU("submit_sm_resp", "ESME_RINVBNDSTS", pdu.sequence_number)]
    ELSE IF ~pdu.text_ok THEN
        [outcome |-> "error",
         resp |-> PDU("submit_sm_resp", "ESME_RSYSERR", pdu.sequence_number)]
    ELSE
        [outcome |-> "accepted",
         resp |-> [PDU("submit_sm_resp", "ESME_ROK", pdu.sequence_number)
                     EXCEPT !.message_id = next_message_id + 1]]

\* SMPPSession.run, the SMPPDecodeError handler: the generic_nack it sends
DecodeErrorNack(frame) == PDU("generic_nack", "ESME_RINVCMDID", 0)

\* SMPPSession._handle_pdu, the final else: the generic_nack it sends
UnhandledNack(pdu) ==
    PDU("generic_nack", "ESME_RINVCMDID", pdu.sequence_number)

\* SMPPSession._handle_pdu, the check for a pending response
\* A session that never takes an inbound PDU for a response.
MatchesPending_Never(c, pdu) == FALSE

MatchesPending(c, pdu) == pdu.sequence_number \in pending_responses[c]


\* ------------------------------------------------------------ session loop
\* SMPPSession.run is blocked in _read_pdu between steps; a step reads one
\* complete frame (which sets _last_activity), decodes it and handles it.
Reading(c) ==
    /\ transport[c] = "up"
    /\ InSeq(sessions, c)
    /\ state[c] # "CLOSED"

\* The buffer is empty: the next byte read is the first of a frame.
AtFrameStart(c) == reader[c] = EmptyReader

Reaction(kind, st, csid, written) ==
    [kind |-> kind, state |-> st, client_system_id |-> csid,
     written |-> written]

\* What one pass of run's loop does with a complete frame (run,
\* _read_pdu, _handle_pdu and the handlers): the branch taken (kind), the
\* session state and client_system_id it leaves and the PDUs it writes.
\*   fatal         PDUHeader.decode raised ValueError: "except Exception",
\*                 the loop is left and _cleanup runs
\*   decode_error  SMPPDecodeError: a generic_nack, the loop goes on
\*   matched       the sequence number is a key of _pending_responses: the
\*                 entry is popped, its future gets the PDU, nothing else
\*   ignored       an unmatched deliver_sm_resp
\*   unhandled     any other PDU class: a generic_nack
React(c, frame) ==
    LET st == state[c]
        csid == client_system_id[c] IN
    IF Decode(frame) = "ValueError" THEN
        Reaction("fatal", "CLOSED", csid, <<>>)
    ELSE IF Decode(frame) = "SMPPDecodeError" THEN
        Reaction("decode_error", st, csid, <<DecodeErrorNack(frame)>>)
    ELSE IF MatchesPending(c, frame) THEN
        Reaction("matched", st, csid, <<>>)
    ELSE IF frame.command_id \in BindCommands THEN
        LET r == handle_bind(c, frame) IN
        Reaction("bind", r.state, r.client_system_id, <<r.resp>>)
    ELSE IF frame.command_id = "unbind" THEN
        LET r == handle_unbind(c, frame) IN
        Reaction("unbind", r.state, csid, <<r.resp>>)
    ELSE IF frame.command_id = "enquire_link" THEN
        Reaction("enquire_link", st, csid, <<handle_enquire_link(c, frame)>>)
    ELSE IF frame.command_id = "submit_sm" THEN
        LET r == handle_submit_sm(c, frame) IN
        Reaction(r.outcome, st, csid, <<r.resp>>)
    ELSE IF frame.command_id = "deliver_sm_resp" THEN
        Reaction("ignored", st, csid, <<>>)
    ELSE
        Reaction("unhandled", st, csid, <<UnhandledNack(frame)>>)

\* One pass of the loop.  An accepted submit_sm has run _on_submit_sm: a
\* new SMSMessage, its pending_delivery_reports entry when bit 0 of
\* registered_delivery is set, and the put on the incoming queue.
Recv(c, frame) ==
    /\ Reading(c)
    /\ AtFrameStart(c)
    /\ Free(c, "session")
    /\ LET r == React(c, frame)
           mid == next_message_id + 1
           s == frame.sequence_number IN
        /\ idle' = [idle EXCEPT ![c] = FALSE]
        /\ client_system_id' =
              [client_system_id EXCEPT ![c] = r.client_system_id]
        /\ IF r.kind = "fatal" THEN Teardown(c)
           ELSE /\ state' = [state EXCEPT ![c] = r.state]
                /\ pending_responses' =
                      IF r.kind = "matched"
                      THEN [pending_responses EXCEPT ![c] = @ \ {s}]
                      ELSE pending_responses
                /\ futures' =
                      IF r.kind = "matched" /\ futures[c][s].st = "pending"
                      THEN [futures EXCEPT ![c][s] = Done(frame)]
                      ELSE futures
                /\ in_flight' = IF r.written # <<>>
                                THEN Drain(c, "session") ELSE in_flight
                /\ UNCHANGED <<keepalive, sessions, transport, paused>>
        /\ IF r.kind = "accepted" THEN
              /\ next_message_id < MaxMsgs
              /\ next_message_id' = mid
              /\ messages' = [messages EXCEPT ![mid] = on_submit_sm(mid, frame)]
              /\ incoming' = Append(incoming, mid)
              /\ submitter' = [submitter EXCEPT ![mid] = generation[c]]
              /\ pending_delivery_reports' =
                    IF ReceiptRequested(frame)
                    THEN [pending_delivery_reports
                             EXCEPT ![mid] = ReportInfo(c, frame)]
                    ELSE pending_delivery_reports
           ELSE UNCHANGED <<next_message_id, messages, incoming, submitter,
                            pending_delivery_reports>>
    /\ UNCHANGED <<running, listening, confVars, codec, stream, generation, reader, sequence, dispatcher, consumer,
                   outgoing, event_queue, retry_counts, delivered_time,
                   histVars>>

\* ---------------------------------------------------------------- framing
\* A header (SMPP_HEADER_SIZE bytes on the wire, nothing after it) whose
\* command_length field does not say so: 0 and 12 are below the header
\* size, 65536 is above SMPP_MAX_PDU_SIZE.
LengthFrames ==
    {[command_length |-> len, command_id |-> "enquire_link",
      command_status |-> "ESME_ROK", sequence_number |-> s] :
        len \in {0, 12, 65536}, s \in PeerSeqs}

\* _read_pdu and run once the bytes of header h are in the empty buffer.
\* pdu_length is taken from the first four bytes.  When it is above the
\* bytes held, _read_pdu goes on reading ("waiting"); else the first
\* pdu_length bytes are cut off the buffer and given to SMPPCodec.decode,
\* which raises SMPPDecodeError on fewer than SMPP_HEADER_SIZE bytes: run
\* sends its generic_nack and goes on with what the buffer still holds.
ReadHeader(c, h) ==
    IF h.command_length > SMPP_HEADER_SIZE THEN
        [reaction |-> Reaction("waiting", state[c], client_system_id[c], <<>>),
         reader |-> [buffer |-> SMPP_HEADER_SIZE,
                     pdu_length |-> h.command_length]]
    ELSE
        [reaction |-> Reaction("decode_error", state[c], client_system_id[c],
                               <<DecodeErrorNack(h)>>),
         reader |-> [buffer |-> SMPP_HEADER_SIZE - h.command_length,
                     pdu_length |-> 0]]

\* The header bytes arrive (the read sets _last_activity).  After a
\* command_length of 0 the buffer still starts with the same header and
\* every further pass of run's loop repeats the generic_nack; after one
\* below the header size the frame boundary is lost.  Neither is followed
\* further: no frame is read from a buffer that is not empty.
RecvHeader(c, h) ==
    /\ Reading(c)
    /\ AtFrameStart(c)
    /\ Free(c, "session")
    /\ h.command_length # SMPP_HEADER_SIZE
    /\ reader' = [reader EXCEPT ![c] = ReadHeader(c, h).reader]
    /\ idle' = [idle EXCEPT ![c] = FALSE]
    /\ in_flight' = IF ReadHeader(c, h).reaction.written # <<>>
                    THEN Drain(c, "session") ELSE in_flight
    /\ UNCHANGED <<running, listening, confVars, codec, stream, paused, generation, submitter, sessions,
                   transport, state, client_system_id, sequence,
                   pending_responses, futures, keepalive, dispatcher,
                   consumer, queueVars, histVars>>

\* SMPPCodec.decode on pdu_length bytes that begin with a well-formed
\* header: the size check
DecodeSized(pdu_length) ==
    IF pdu_length > SMPP_MAX_PDU_SIZE THEN "SMPPDecodeError" ELSE "ok"

\* The peer sends the bytes that _read_pdu waits for, up to pdu_length:
\* the frame is cut off the buffer and decoded.  A frame above
\* SMPP_MAX_PDU_SIZE is refused only now, with SMPPDecodeError: run sends
\* its generic_nack and goes on reading.
RecvRest(c) ==
    /\ Reading(c)
    /\ Free(c, "session")
    /\ reader[c].pdu_length > reader[c].buffer
    /\ DecodeSized(reader[c].pdu_length) = "SMPPDecodeError"
    /\ reader' = [reader EXCEPT ![c] = EmptyReader]
    /\ idle' = [idle EXCEPT ![c] = FALSE]
    /\ in_flight' = Drain(c, "session")
    /\ UNCHANGED <<running, listening, confVars, codec, stream, paused, generation, submitter, sessions,
                   transport, state, client_system_id, sequence,
                   pending_responses, futures, keepalive, dispatcher,
                   consumer, queueVars, histVars>>

\* The peer stops reading and the transport's buffer passes its high-water
\* mark: the transport pauses writing.
Pause(c) ==
    /\ transport[c] = "up"
    /\ InSeq(sessions, c)
    /\ ~paused[c]
    /\ paused' = [paused EXCEPT ![c] = TRUE]
    /\ UNCHANGED <<running, listening, confVars, codec, stream, in_flight, generation,
                   submitter, reader, sessions, transport, sessVars,
                   dispatcher, consumer, queueVars, histVars>>

\* The peer reads again and the buffer empties: the transport resumes
\* writing and every drain() that was suspended returns.
Resume(c) ==
    /\ paused[c]
    /\ paused' = [paused EXCEPT ![c] = FALSE]
    /\ in_flight' = [in_flight EXCEPT ![c] = {}]
    /\ UNCHANGED <<running, listening, confVars, codec, stream, generation, submitter,
                   reader, sessions, transport, sessVars, dispatcher,
                   consumer, queueVars, histVars>>

\* The peer closes its side: read_available returns no bytes, _read_pdu
\* returns None and run leaves its loop.
PeerFin(c) ==
    /\ Reading(c)
    /\ Free(c, "session")
    /\ Teardown(c)
    /\ UNCHANGED <<running, listening, confVars, codec, stream, generation, submitter, reader, client_system_id, sequence, idle,
                   dispatcher, consumer, queueVars, histVars>>

\* The peer resets the connection: from now on writes raise
\* ConnectionError; the session has not run yet.
PeerReset(c) ==
    /\ Reading(c)
    /\ in_flight[c] = {}
    /\ transport' = [transport EXCEPT ![c] = "reset"]
    /\ UNCHANGED <<running, listening, confVars, codec, stream, flowVars, generation, submitter, reader, sessions, sessVars, dispatcher,
                   consumer, queueVars, histVars>>

\* run: the read raises ConnectionError on the reset connection; run
\* leaves its loop.
ReadError(c) ==
    /\ transport[c] = "reset"
    /\ InSeq(sessions, c)
    /\ Teardown(c)
    /\ UNCHANGED <<running, listening, confVars, codec, stream, generation, submitter, reader, client_system_id, sequence, idle,
                   dispatcher, consumer, queueVars, histVars>>

\* --------------------------------------------------------------- keepalive
\* SMPPSession._keepalive_loop, the loop condition
KeepaliveContinues(st) == st \notin {"CLOSED", "UNBOUND"}

AfterKeepaliveRound(c) ==
    IF KeepaliveContinues(state[c]) THEN [pc |-> "sleep", seq |-> 0]
    ELSE [pc |-> "ended", seq |-> 0]

\* _keepalive_loop: an enquire_link is due
KeepaliveDue(c) == idle[c] /\ is_bound(state[c])

\* The sleep is over.  With no read during the sleep and the session
\* bound, an enquire_link is sent and awaited; a write on a reset
\* connection raises ConnectionError, which ends the task with the key
\* still registered.
KeepaliveWake(c) ==
    /\ keepalive[c].pc = "sleep"
    /\ IF KeepaliveDue(c) THEN
          LET s == next_sequence(sequence[c]) IN
          /\ sequence[c] < MaxSeq
          /\ sequence' = [sequence EXCEPT ![c] = s]
          /\ pending_responses' = [pending_responses EXCEPT ![c] = @ \cup {s}]
          /\ IF transport[c] = "up" THEN
                /\ keepalive' = [keepalive EXCEPT ![c] = [pc |-> "wait", seq |-> s]]
                /\ futures' = [futures EXCEPT ![c][s] = Pending]
             ELSE
                /\ keepalive' = [keepalive EXCEPT ![c] = [pc |-> "ended", seq |-> 0]]
                /\ UNCHANGED futures
          /\ UNCHANGED idle
       ELSE
          /\ keepalive' = [keepalive EXCEPT ![c] = AfterKeepaliveRound(c)]
          /\ idle' = [idle EXCEPT ![c] = TRUE]
          /\ UNCHANGED <<sequence, pending_responses, futures>>
    /\ in_flight' = IF KeepaliveDue(c) /\ transport[c] = "up"
                    THEN Drain(c, "keepalive") ELSE in_flight
    /\ UNCHANGED <<running, listening, confVars, codec, stream, paused, generation, submitter, reader, sessions, transport, state,
                   client_system_id, dispatcher, consumer, queueVars, histVars>>

\* The enquire_link was answered (by whatever PDU carried its sequence
\* number): _last_activity is set and the loop goes on.
KeepaliveResume(c) ==
    /\ keepalive[c].pc = "wait"
    /\ Free(c, "keepalive")
    /\ futures[c][keepalive[c].seq].st = "done"
    /\ futures' = [futures EXCEPT ![c][keepalive[c].seq] = NoFuture]
    /\ keepalive' = [keepalive EXCEPT ![c] = AfterKeepaliveRound(c)]
    /\ idle' = [idle EXCEPT ![c] = TRUE]
    /\ UNCHANGED <<running, listening, confVars, codec, stream, flowVars, generation, submitter, reader, sessions, transport, state,
                   client_system_id, sequence, pending_responses, dispatcher,
                   consumer, queueVars, histVars>>

\* No answer within the timeout: _send_and_wait pops the key and the
\* loop is left with "break".  Nothing else is done.
KeepaliveTimeout(c) ==
    /\ keepalive[c].pc = "wait"
    /\ Free(c, "keepalive")
    /\ futures[c][keepalive[c].seq].st = "pending"
    /\ futures' = [futures EXCEPT ![c][keepalive[c].seq] = NoFuture]
    /\ pending_responses' =
          [pending_responses EXCEPT ![c] = @ \ {keepalive[c].seq}]
    /\ keepalive' = [keepalive EXCEPT ![c] = [pc |-> "timed_out", seq |-> 0]]
    /\ UNCHANGED <<running, listening, confVars, codec, stream, flowVars, generation, submitter, reader, sessions, transport, state,
                   client_system_id, sequence, idle, dispatcher, consumer,
                   queueVars, histVars>>

\* --------------------------------------------------------- deliver_message
\* A state check that only turns closed sessions away.
DeliverAllowed_NotClosed(st) == st # "CLOSED"

\* SMPPSession.deliver_message, the state check
DeliverAllowed(st) == st \in {"BOUND_RX", "BOUND_TRX"}

\* A deliver_message that takes any deliver_sm_resp for an acknowledgement.
DeliverOk_AnyStatus(response) == response.command_id = "deliver_sm_resp"

\* deliver_message: whether the response makes it return True
DeliverOk(response) ==
    /\ response.command_id = "deliver_sm_resp"
    /\ response.command_status = "ESME_ROK"

\* deliver_message: the DeliverSM it builds.  src and dst are the
\* (address, TON, NPI) of its source and destination arguments; mid stands
\* for the text.
DeliverSM(seq, src, dst, mid, esm_class) ==
    [PDU("deliver_sm", "ESME_ROK", seq)
        EXCEPT !.source_addr = src[1], !.source_addr_ton = src[2],
               !.source_addr_npi = src[3], !.destination_addr = dst[1],
               !.dest_addr_ton = dst[2], !.dest_addr_npi = dst[3],
               !.message_id = mid, !.esm_class = esm_class]

\* _process_outgoing: its deliver_message call (TON and NPI are left to
\* their defaults, INTERNATIONAL and ISDN)
DispatchPdu(sms, seq) ==
    DeliverSM(seq, <<sms.sender, 1, 1>>, <<sms.recipient, 1, 1>>,
              sms.message_id, 0)

\* A receipt addressed like the message it reports on.
send_delivery_report_Unswapped(info, mid, seq) ==
    DeliverSM(seq, <<info.source, info.source_ton, info.source_npi>>,
              <<info.destination, info.dest_ton, info.dest_npi>>, mid, 4)

\* _send_delivery_report: its deliver_message call
send_delivery_report(info, mid, seq) ==
    DeliverSM(seq, <<info.destination, info.dest_ton, info.dest_npi>>,
              <<info.source, info.source_ton, info.source_npi>>, mid, 4)

\* The dispatcher's "for session in ..." loop from the sessions in rest up
\* to its next suspension: deliver_message returns False at once on a
\* session that cannot receive (refused); on a reset connection the write
\* raises (the sequence number is used and its key stays registered) and
\* the loop goes on; otherwise the deliver_sm is written and its response
\* awaited (conn, seq).  capped: the model's bound on _sequence is hit.
RECURSIVE TrySessions(_, _, _, _)
TrySessions(rest, sq, pr, ref) ==
    IF rest = <<>> THEN
        [conn |-> 0, seq |-> 0, rest |-> <<>>, sequence |-> sq,
         pending |-> pr, refused |-> ref, capped |-> FALSE]
    ELSE LET c == Head(rest) IN
        IF ~DeliverAllowed(state[c]) THEN
            TrySessions(Tail(rest), sq, pr, Append(ref, c))
        ELSE IF sq[c] >= MaxSeq THEN
            [conn |-> 0, seq |-> 0, rest |-> <<>>, sequence |-> sq,
             pending |-> pr, refused |-> ref, capped |-> TRUE]
        ELSE LET s == next_sequence(sq[c])
                 sq2 == [sq EXCEPT ![c] = s]
                 pr2 == [pr EXCEPT ![c] = @ \cup {s}] IN
            IF transport[c] # "up" THEN
                TrySessions(Tail(rest), sq2, pr2, ref)
            ELSE
                [conn |-> c, seq |-> s, rest |-> Tail(rest), sequence |-> sq2,
                 pending |-> pr2, refused |-> ref, capped |-> FALSE]

\* -------------------------------------------------------------- dispatcher
\* The receiving sessions, the one registered last coming first.
get_receiving_sessions_Reversed ==
    LET rs == SelectSeq(sessions, LAMBDA c : can_receive(state[c])) IN
    [i \in 1..Len(rs) |-> rs[Len(rs) + 1 - i]]

\* SMPPServerAdapter._get_receiving_sessions
get_receiving_sessions == SelectSeq(sessions, LAMBDA c : can_receive(state[c]))

\* _process_outgoing: the retry counter has reached max_retries
RetriesExhausted(retries) == retries >= max_retries

Event(type, mid) == [event_type |-> type, message_id |-> mid]

\* EventQueue.emit behind "if self.event_queue"
Emit(type, mid) ==
    IF has_event_queue
    THEN /\ event_queue' = Append(event_queue, Event(type, mid))
         /\ emitted' = [emitted EXCEPT
                ![mid].delivered = @ + (IF type = "MESSAGE_DELIVERED" THEN 1 ELSE 0),
                ![mid].failed = @ + (IF type = "MESSAGE_FAILED" THEN 1 ELSE 0)]
    ELSE UNCHANGED <<event_queue, emitted>>

\* A round that gives a message up and keeps its retry counter.
Round_KeepsCounter(m, rest, q, pr, fut) ==
    LET r == TrySessions(rest, sequence, pr, <<>>)
        retries == retry_counts[m] + 1 IN
    /\ ~r.capped
    /\ refused' = refused \cup {r.refused[i] : i \in 1..Len(r.refused)}
    /\ sequence' = r.sequence
    /\ pending_responses' = r.pending
    /\ IF r.conn # 0 THEN
          /\ dispatcher' = [pc |-> "wait", sms |-> m, rest |-> r.rest,
                            conn |-> r.conn, seq |-> r.seq,
                            pdu |-> DispatchPdu(messages[m], r.seq)]
          /\ futures' = [fut EXCEPT ![r.conn][r.seq] = Pending]
          /\ outgoing' = q
          /\ UNCHANGED <<retry_counts, event_queue, emitted>>
       ELSE
          /\ dispatcher' = IdleTask
          /\ futures' = fut
          /\ retry_counts' = [retry_counts EXCEPT ![m] = retries]
          /\ IF RetriesExhausted(retries) THEN
                /\ outgoing' = q
                /\ Emit("MESSAGE_FAILED", m)
             ELSE
                /\ outgoing' = Append(q, m)
                /\ UNCHANGED <<event_queue, emitted>>

\* _process_outgoing from the sessions in rest on, for message m, with q
\* the outgoing queue, pr the pending keys and fut the futures as the step
\* found them: either a deliver_sm is written and awaited, or the round
\* has failed and the message is re-enqueued (the one-second sleep that
\* follows only delays the next get) or given up with MESSAGE_FAILED.
Round(m, rest, q, pr, fut) ==
    LET r == TrySessions(rest, sequence, pr, <<>>)
        retries == retry_counts[m] + 1 IN
    /\ ~r.capped
    /\ refused' = refused \cup {r.refused[i] : i \in 1..Len(r.refused)}
    /\ sequence' = r.sequence
    /\ pending_responses' = r.pending
    /\ IF r.conn # 0 THEN
          /\ dispatcher' = [pc |-> "wait", sms |-> m, rest |-> r.rest,
                            conn |-> r.conn, seq |-> r.seq,
                            pdu |-> DispatchPdu(messages[m], r.seq)]
          /\ futures' = [fut EXCEPT ![r.conn][r.seq] = Pending]
          /\ outgoing' = q
          /\ UNCHANGED <<retry_counts, event_queue, emitted>>
       ELSE
          /\ dispatcher' = IdleTask
          /\ futures' = fut
          /\ IF RetriesExhausted(retries) THEN
                /\ retry_counts' = [retry_counts EXCEPT ![m] = 0]
                /\ outgoing' = q
                /\ Emit("MESSAGE_FAILED", m)
             ELSE
                /\ retry_counts' = [retry_counts EXCEPT ![m] = retries]
                /\ outgoing' = Append(q, m)
                /\ UNCHANGED <<event_queue, emitted>>

\* outgoing.get() returns a message: a new round starts.
DispatchGet ==
    /\ running
    /\ dispatcher.pc = "get"
    /\ outgoing # <<>>
    /\ Round(Head(outgoing), get_receiving_sessions, Tail(outgoing),
             pending_responses, futures)
    /\ in_flight' = IF dispatcher'.pc = "wait"
                    THEN Drain(dispatcher'.conn, "dispatcher") ELSE in_flight
    /\ UNCHANGED <<running, listening, confVars, codec, stream, paused, generation, submitter, reader, sessions, transport, state,
                   client_system_id, idle, keepalive, consumer, incoming,
                   next_message_id, messages, pending_delivery_reports, delivered_time>>

\* The awaited future has a result: on success the message is delivered,
\* else the round goes on with the next session.
DispatchResume ==
    /\ dispatcher.pc = "wait"
    /\ Free(dispatcher.conn, "dispatcher")
    /\ LET c == dispatcher.conn
           s == dispatcher.seq
           m == dispatcher.sms
           fut == [futures EXCEPT ![c][s] = NoFuture] IN
        /\ futures[c][s].st = "done"
        /\ IF DeliverOk(futures[c][s].pdu) THEN
              /\ dispatcher' = IdleTask
              /\ futures' = fut
              /\ retry_counts' = [retry_counts EXCEPT ![m] = 0]
              /\ delivered_time' = [delivered_time EXCEPT ![m] = TRUE]
              /\ Emit("MESSAGE_DELIVERED", m)
              /\ UNCHANGED <<sequence, pending_responses, outgoing, refused>>
           ELSE /\ Round(m, dispatcher.rest, outgoing, pending_responses, fut)
                /\ UNCHANGED delivered_time
    /\ in_flight' = IF dispatcher'.pc = "wait"
                    THEN Drain(dispatcher'.conn, "dispatcher") ELSE in_flight
    /\ UNCHANGED <<running, listening, confVars, codec, stream, paused, generation, submitter, reader, sessions, transport, state,
                   client_system_id, idle, keepalive, consumer, incoming,
                   next_message_id, messages, pending_delivery_reports>>

\* No response within response_timeout: _send_and_wait pops the key,
\* deliver_message returns False and the round goes on.
DispatchTimeout ==
    /\ dispatcher.pc = "wait"
    /\ Free(dispatcher.conn, "dispatcher")
    /\ LET c == dispatcher.conn
           s == dispatcher.seq IN
        /\ futures[c][s].st = "pending"
        /\ Round(dispatcher.sms, dispatcher.rest, outgoing,
                 [pending_responses EXCEPT ![c] = @ \ {s}],
                 [futures EXCEPT ![c][s] = NoFuture])
    /\ in_flight' = IF dispatcher'.pc = "wait"
                    THEN Drain(dispatcher'.conn, "dispatcher") ELSE in_flight
    /\ UNCHANGED <<running, listening, confVars, codec, stream, paused, generation, submitter, reader, sessions, transport, state,
                   client_system_id, idle, keepalive, consumer, incoming,
                   next_message_id, messages, pending_delivery_reports, delivered_time>>

\* The awaited future was cancelled by the session's _cleanup: wait_for
\* raises CancelledError, which neither deliver_message nor the round's
\* "except Exception" catches; _process_outgoing's outer handler passes
\* and the task returns.
DispatchCancelled ==
    /\ dispatcher.pc = "wait"
    /\ futures[dispatcher.conn][dispatcher.seq].st = "cancelled"
    /\ futures' = [futures EXCEPT ![dispatcher.conn][dispatcher.seq] = NoFuture]
    /\ dispatcher' = [dispatcher EXCEPT !.pc = "ended", !.rest = <<>>, !.pdu = NoPdu,
                                        !.conn = 0, !.seq = 0]
    /\ UNCHANGED <<running, listening, confVars, codec, stream, flowVars, generation, submitter, reader, sessions, transport, state,
                   client_system_id, sequence, pending_responses, idle,
                   keepalive, consumer, queueVars, histVars>>

\* ---------------------------------------------------------- event consumer
\* _send_delivery_report: the session the receipt goes to, 0 when the
\* entry's session is gone or cannot receive.
ReceiptSession(c) ==
    IF c # 0 /\ InSeq(sessions, c) /\ can_receive(state[c]) THEN c ELSE 0

\* _process_events gets an event; _handle_delivery_event and
\* _handle_failure_event pop the pending_delivery_reports entry and
\* _send_delivery_report looks the session up by its id: without an entry,
\* or with the session gone or unable to receive, nothing is sent; else
\* deliver_message(esm_class=0x04) writes the receipt and awaits its
\* response.  A ConnectionError of the write is caught and logged.
ConsumeEvent ==
    /\ running
    /\ consumer.pc = "get"
    /\ event_queue # <<>>
    /\ LET e == Head(event_queue)
           m == e.message_id
           report_info == pending_delivery_reports[m]
           c == ReceiptSession(report_info.session_id)
           s == next_sequence(sequence[c]) IN
        /\ event_queue' = Tail(event_queue)
        /\ pending_delivery_reports' = [pending_delivery_reports EXCEPT ![m] = NoReport]
        /\ refused' = IF c # 0 /\ ~DeliverAllowed(state[c])
                      THEN refused \cup {c} ELSE refused
        /\ IF c # 0 /\ DeliverAllowed(state[c]) THEN
              /\ sequence[c] < MaxSeq
              /\ sequence' = [sequence EXCEPT ![c] = s]
              /\ pending_responses' = [pending_responses EXCEPT ![c] = @ \cup {s}]
              /\ IF transport[c] = "up" THEN
                    /\ consumer' = [pc |-> "wait", sms |-> m, rest |-> <<>>,
                                    conn |-> c, seq |-> s,
                                    pdu |-> send_delivery_report(report_info, m, s)]
                    /\ futures' = [futures EXCEPT ![c][s] = Pending]
                 ELSE UNCHANGED <<consumer, futures>>
           ELSE UNCHANGED <<consumer, sequence, pending_responses, futures>>
    /\ in_flight' = IF consumer'.pc = "wait"
                    THEN Drain(consumer'.conn, "consumer") ELSE in_flight
    /\ UNCHANGED <<running, listening, confVars, codec, stream, paused, generation, submitter, reader, sessions, transport, state,
                   client_system_id, idle, keepalive, dispatcher, outgoing,
                   incoming, next_message_id, messages, retry_counts,
                   delivered_time, emitted>>

\* The receipt was answered or timed out (the key is then popped):
\* deliver_message returns and _send_delivery_report only logs the outcome.
ConsumerResume ==
    /\ consumer.pc = "wait"
    /\ Free(consumer.conn, "consumer")
    /\ LET c == consumer.conn
           s == consumer.seq IN
        /\ futures[c][s].st \in {"done", "pending"}
        /\ futures' = [futures EXCEPT ![c][s] = NoFuture]
        /\ pending_responses' = [pending_responses EXCEPT ![c] = @ \ {s}]
    /\ consumer' = IdleTask
    /\ UNCHANGED <<running, listening, confVars, codec, stream, flowVars, generation, submitter, reader, sessions, transport, state,
                   client_system_id, sequence, idle, keepalive, dispatcher,
                   queueVars, histVars>>

\* The awaited future was cancelled by the session's _cleanup: the
\* CancelledError passes _send_delivery_report's "except Exception" and
\* ends _process_events.
ConsumerCancelled ==
    /\ consumer.pc = "wait"
    /\ futures[consumer.conn][consumer.seq].st = "cancelled"
    /\ futures' = [futures EXCEPT ![consumer.conn][consumer.seq] = NoFuture]
    /\ consumer' = [consumer EXCEPT !.pc = "ended", !.conn = 0, !.seq = 0,
                                         !.pdu = NoPdu]
    /\ UNCHANGED <<running, listening, confVars, codec, stream, flowVars, generation, submitter, reader, sessions, transport, state,
                   client_system_id, sequence, pending_responses, idle,
                   keepalive, dispatcher, queueVars, histVars>>

\* A second adapter built on the same EventQueue (its own sessions and
\* its own, empty, _pending_delivery_reports): its _process_events gets the
\* event at the head of the one asyncio.Queue, finds no entry for the
\* message id and returns.
PeerAdapterConsume ==
    /\ event_queue # <<>>
    /\ event_queue' = Tail(event_queue)
    /\ UNCHANGED <<running, listening, confVars, codec, stream, flowVars, generation, submitter, reader, sessions, transport, sessVars,
                   dispatcher, consumer, outgoing, incoming, next_message_id,
                   messages, pending_delivery_reports, retry_counts,
                   delivered_time, histVars>>

\* ---------------------------------------------------------------- upstream
\* main: receive_sms() takes a message from the incoming queue and
\* send_sms() puts it on the outgoing queue.
UpstreamForward ==
    /\ running
    /\ incoming # <<>>
    /\ incoming' = Tail(incoming)
    /\ outgoing' = Append(outgoing, Head(incoming))
    /\ UNCHANGED <<running, listening, confVars, codec, stream, flowVars, generation, submitter, reader, sessions, transport, sessVars,
                   dispatcher, consumer, next_message_id, messages,
                   pending_delivery_reports, event_queue, retry_counts,
                   delivered_time, histVars>>

\* AbstractProtocolAdapter.send_sms with a new SMSMessage
UpstreamSend ==
    /\ running
    /\ next_message_id < MaxMsgs
    /\ next_message_id' = next_message_id + 1
    /\ messages' = [messages EXCEPT ![next_message_id + 1] =
                        SMSMessage(next_message_id + 1, "3003", "1001")]
    /\ outgoing' = Append(outgoing, next_message_id + 1)
    /\ UNCHANGED <<running, listening, confVars, codec, stream, flowVars, generation, submitter, reader, sessions, transport, sessVars,
                   dispatcher, consumer, incoming, pending_delivery_reports,
                   event_queue, retry_counts, delivered_time, histVars>>

\* -------------------------------------------------------------------- stop
\* SMPPServerAdapter.stop: the dispatcher and the event consumer are
\* cancelled, TCPServer.stop cancels every connection task (each session
\* runs _cleanup) and closes the connections and the listener, the
\* registry is cleared.  This is stop() from call to return when no
\* connection is accepted while it waits.
Stop ==
    /\ running
    /\ running' = FALSE
    /\ listening' = FALSE
    /\ dispatcher' = [dispatcher EXCEPT !.pc = "ended", !.rest = <<>>, !.pdu = NoPdu,
                                        !.conn = 0, !.seq = 0]
    /\ consumer' = IF consumer.pc = "none" THEN consumer
                   ELSE [consumer EXCEPT !.pc = "ended", !.conn = 0, !.seq = 0,
                                         !.pdu = NoPdu]
    /\ sessions' = <<>>
    /\ state' = [c \in Conns |->
                    IF transport[c] = "none" THEN state[c] ELSE "CLOSED"]
    /\ transport' = [c \in Conns |->
                    IF transport[c] = "none" THEN "none" ELSE "closed"]
    /\ keepalive' = [c \in Conns |->
                    IF keepalive[c].pc = "none" THEN keepalive[c]
                    ELSE [pc |-> "ended", seq |-> 0]]
    /\ pending_responses' = [c \in Conns |-> {}]
    /\ paused' = [c \in Conns |-> FALSE]
    /\ in_flight' = [c \in Conns |-> {}]
    /\ futures' = [c \in Conns |-> [s \in 1..MaxSeq |-> NoFuture]]
    /\ UNCHANGED <<confVars, codec, stream, generation, submitter, reader, client_system_id, sequence, idle, queueVars,
                   histVars>>

\* stop() up to the point where TCPServer.stop waits for the connection
\* tasks it has cancelled: the adapter is marked not running, the
\* dispatcher and the event consumer are cancelled and awaited, every
\* connection task that exists is cancelled, so each session runs _cleanup
\* and its handlers drop it from the registry and close its connection.
\* The listener is closed only after this wait.
StopCancel ==
    /\ running
    /\ running' = FALSE
    /\ dispatcher' = [dispatcher EXCEPT !.pc = "ended", !.rest = <<>>, !.pdu = NoPdu,
                                        !.conn = 0, !.seq = 0]
    /\ consumer' = IF consumer.pc = "none" THEN consumer
                   ELSE [consumer EXCEPT !.pc = "ended", !.conn = 0, !.seq = 0,
                                         !.pdu = NoPdu]
    /\ sessions' = <<>>
    /\ state' = [c \in Conns |->
                    IF transport[c] = "none" THEN state[c] ELSE "CLOSED"]
    /\ transport' = [c \in Conns |->
                    IF transport[c] = "none" THEN "none" ELSE "closed"]
    /\ keepalive' = [c \in Conns |->
                    IF keepalive[c].pc = "none" THEN keepalive[c]
                    ELSE [pc |-> "ended", seq |-> 0]]
    /\ pending_responses' = [c \in Conns |-> {}]
    /\ paused' = [c \in Conns |-> FALSE]
    /\ in_flight' = [c \in Conns |-> {}]
    /\ futures' = [c \in Conns |-> [s \in 1..MaxSeq |-> NoFuture]]
    /\ UNCHANGED <<listening, confVars, codec, stream, generation, submitter, reader,
                   client_system_id, sequence, idle, queueVars, histVars>>

\* The rest of stop(): TCPServer.stop closes the connections it finds in
\* _connections and then the listener, and the adapter clears its
\* registry.  The task of a connection accepted during the wait was not
\* among those cancelled; followed here is the connection accepted after
\* the loop over _connections took its copy, which nothing closes, with
\* an asyncio.Server whose wait_closed does not wait for connections.
StopReturn ==
    /\ ~running
    /\ listening
    /\ listening' = FALSE
    /\ sessions' = <<>>
    /\ UNCHANGED <<running, confVars, codec, stream, flowVars, generation, submitter, reader,
                   transport, sessVars, dispatcher, consumer, queueVars,
                   histVars>>

\* ------------------------------------------------------------------- codec
\* Bytes are numbers 0..255 and byte strings are sequences of them; a str
\* is the sequence of its code points.  The body of a PDU object is the
\* sequence of its field values in the order of _encode_body.
None == -1

\* constants.TON, NPI and DataCoding: the values of the enumerations
TON == 0..6
NPI == {0, 1, 3, 4, 6, 8, 9, 10, 14, 18}
DataCoding == (0..10) \cup {13, 14}

\* constants.CommandId: first byte and low 16 bits of each value
CommandIdValue ==
    [generic_nack |-> <<128, 0>>,
     bind_receiver |-> <<0, 1>>, bind_receiver_resp |-> <<128, 1>>,
     bind_transmitter |-> <<0, 2>>, bind_transmitter_resp |-> <<128, 2>>,
     bind_transceiver |-> <<0, 9>>, bind_transceiver_resp |-> <<128, 9>>,
     unbind |-> <<0, 6>>, unbind_resp |-> <<128, 6>>,
     outbind |-> <<0, 11>>, query_sm |-> <<0, 3>>,
     submit_sm |-> <<0, 4>>, submit_sm_resp |-> <<128, 4>>,
     deliver_sm |-> <<0, 5>>, deliver_sm_resp |-> <<128, 5>>,
     enquire_link |-> <<0, 21>>, enquire_link_resp |-> <<128, 21>>]

\* constants.CommandStatus: the values of the statuses used here
CommandStatusValue ==
    [ESME_ROK |-> 0, ESME_RINVCMDID |-> 3, ESME_RINVBNDSTS |-> 4,
     ESME_RALYBND |-> 5, ESME_RSYSERR |-> 8, ESME_RBINDFAIL |-> 13,
     ESME_RX_T_APPN |-> 100]

\* struct "!I" for a value below 2^31, and back
PackWord(n) ==
    <<n \div 16777216, (n \div 65536) % 256, (n \div 256) % 256, n % 256>>

UnpackWord(data, pos) ==
    ((data[pos] * 256 + data[pos + 1]) * 256 + data[pos + 2]) * 256
        + data[pos + 3]

CommandIdBytes(cmd) ==
    <<CommandIdValue[cmd][1], 0, CommandIdValue[cmd][2] \div 256,
      CommandIdValue[cmd][2] % 256>>

\* The fields of each PDU class in wire order: C-octet strings with their
\* field size, single bytes, bytes turned into an enumeration by decode,
\* the length-prefixed short_message and the optional TLV.
CString(size) == [kind |-> "c_octet_string", size |-> size]
Octet(kind) == [kind |-> kind, size |-> 1]

BindFields ==
    <<CString(16), CString(9), CString(13), Octet("B"), Octet("TON"),
      Octet("NPI"), CString(41)>>

BindResponseFields == <<CString(16), Octet("sc_interface_version")>>

ShortMessageFields ==
    <<CString(6), Octet("TON"), Octet("NPI"), CString(21), Octet("TON"),
      Octet("NPI"), CString(21), Octet("B"), Octet("B"), Octet("B"),
      CString(17), CString(17), Octet("B"), Octet("B"),
      Octet("DataCoding"), Octet("B"), Octet("short_message")>>

SubmitSMRespFields == <<CString(65)>>

DeliverSMRespFields == <<[kind |-> "optional_c_octet_string", size |-> 65]>>

Fields(cmd) ==
    IF cmd \in BindCommands THEN BindFields
    ELSE IF cmd \in {"bind_transceiver_resp", "bind_transmitter_resp",
                     "bind_receiver_resp"} THEN BindResponseFields
    ELSE IF cmd \in {"submit_sm", "deliver_sm"} THEN ShortMessageFields
    ELSE IF cmd = "submit_sm_resp" THEN SubmitSMRespFields
    ELSE IF cmd = "deliver_sm_resp" THEN DeliverSMRespFields
    ELSE <<>>

Encoded(data) == [ok |-> TRUE, data |-> data]
EncodeRaised == [ok |-> FALSE, data |-> <<>>]

\* A C-octet string written without its terminator.
encode_c_octet_string_Unterminated(value, max_length) ==
    IF \E i \in 1..Len(value) : value[i] > 255 THEN EncodeRaised
    ELSE Encoded(SubSeq(value, 1,
                        IF Len(value) < max_length - 1 THEN Len(value)
                        ELSE max_length - 1))

\* _encode_c_octet_string: Latin-1 bytes (UnicodeEncodeError beyond code
\* point 255), cut to max_length - 1, then the NUL.
encode_c_octet_string(value, max_length) ==
    IF \E i \in 1..Len(value) : value[i] > 255 THEN EncodeRaised
    ELSE Encoded(SubSeq(value, 1,
                        IF Len(value) < max_length - 1 THEN Len(value)
                        ELSE max_length - 1) \o <<0>>)

\* One field of _encode_body; struct.pack("!B") raises outside 0..255.
EncodeField(f, v) ==
    IF f.kind \in {"c_octet_string", "optional_c_octet_string"} THEN
        encode_c_octet_string(v, f.size)
    ELSE IF f.kind = "short_message" THEN
        IF Len(v) > 255 THEN EncodeRaised ELSE Encoded(<<Len(v)>> \o v)
    ELSE IF f.kind = "sc_interface_version" THEN
        IF v = None THEN Encoded(<<>>)
        ELSE IF v \in 0..255 THEN Encoded(<<2, 16, 0, 1, v>>)
        ELSE EncodeRaised
    ELSE IF v \in 0..255 THEN Encoded(<<v>>)
    ELSE EncodeRaised

\* _encode_body of the class with these fields
RECURSIVE encode_body(_, _)
encode_body(fields, values) ==
    IF fields = <<>> THEN Encoded(<<>>)
    ELSE LET first == EncodeField(Head(fields), Head(values))
             rest == encode_body(Tail(fields), Tail(values)) IN
         IF first.ok /\ rest.ok THEN Encoded(first.data \o rest.data)
         ELSE EncodeRaised

\* PDU.encode (SMPPCodec.encode): the header with command_length, then
\* the body.
encode(pdu) ==
    LET body == encode_body(Fields(pdu.command_id), pdu.body) IN
    IF ~body.ok THEN EncodeRaised
    ELSE Encoded(PackWord(SMPP_HEADER_SIZE + Len(body.data))
                 \o CommandIdBytes(pdu.command_id)
                 \o PackWord(CommandStatusValue[pdu.command_status])
                 \o PackWord(pdu.sequence_number)
                 \o body.data)

Decoded(value, pos) == [ok |-> TRUE, value |-> value, pos |-> pos]
DecodeRaised == [ok |-> FALSE, value |-> <<>>, pos |-> 0]

\* _decode_c_octet_string from position pos (counted from 1): up to the
\* next NUL; bytes.index raises when there is none.
decode_c_octet_string(data, pos) ==
    LET nuls == {i \in pos..Len(data) : data[i] = 0} IN
    IF nuls = {} THEN DecodeRaised
    ELSE LET end == CHOOSE i \in nuls : \A j \in nuls : i <= j IN
         Decoded(SubSeq(data, pos, end - 1), end + 1)

\* BindResponse.decode_body, the loop over the optional TLVs
RECURSIVE ParseTLVs(_, _, _)
ParseTLVs(data, pos, sc_version) ==
    IF pos - 1 < Len(data) - 4 THEN
        LET tag == data[pos] * 256 + data[pos + 1]
            length == data[pos + 2] * 256 + data[pos + 3] IN
        ParseTLVs(data, pos + 4 + length,
                  IF tag = 528 /\ length >= 1 THEN data[pos + 4]
                  ELSE sc_version)
    ELSE Decoded(sc_version, pos)

\* One field of decode_body: struct.unpack and data[offset] raise on
\* missing bytes, the enumerations on a value they do not hold; the
\* short_message is the slice of sm_length bytes, as many as there are.
DecodeField(f, data, pos) ==
    IF f.kind = "c_octet_string" THEN decode_c_octet_string(data, pos)
    ELSE IF f.kind = "optional_c_octet_string" THEN
        IF data = <<>> THEN Decoded(<<>>, pos)
        ELSE decode_c_octet_string(data, pos)
    ELSE IF f.kind = "sc_interface_version" THEN ParseTLVs(data, pos, None)
    ELSE IF pos > Len(data) THEN DecodeRaised
    ELSE IF f.kind = "short_message" THEN
        Decoded(SubSeq(data, pos + 1,
                       IF pos + data[pos] < Len(data) THEN pos + data[pos]
                       ELSE Len(data)),
                pos + 1 + data[pos])
    ELSE IF f.kind = "TON" /\ data[pos] \notin TON THEN DecodeRaised
    ELSE IF f.kind = "NPI" /\ data[pos] \notin NPI THEN DecodeRaised
    ELSE IF f.kind = "DataCoding" /\ data[pos] \notin DataCoding
        THEN DecodeRaised
    ELSE Decoded(data[pos], pos + 1)

\* decode_body of the class with these fields, from position pos on
RECURSIVE decode_body(_, _, _)
decode_body(fields, data, pos) ==
    IF fields = <<>> THEN Decoded(<<>>, pos)
    ELSE LET first == DecodeField(Head(fields), data, pos) IN
         IF ~first.ok THEN DecodeRaised
         ELSE LET rest == decode_body(Tail(fields), data, first.pos) IN
              IF ~rest.ok THEN DecodeRaised
              ELSE Decoded(<<first.value>> \o rest.value, rest.pos)

\* SMPPCodec.decode on the bytes of one frame: the header with its
\* enumerations, the size checks, the class of the command and its body.
decode(data) ==
    IF Len(data) < SMPP_HEADER_SIZE THEN DecodeRaised
    ELSE LET ids == {cmd \in CommandId :
                        CommandIdBytes(cmd) = SubSeq(data, 5, 8)}
             statuses == {st \in CommandStatus :
                        PackWord(CommandStatusValue[st]) = SubSeq(data, 9, 12)}
             command_length == UnpackWord(data, 1) IN
         IF ids = {} \/ statuses = {} THEN DecodeRaised
         ELSE IF data[1] > 0 \/ command_length > SMPP_MAX_PDU_SIZE
             THEN DecodeRaised
         ELSE IF Len(data) < command_length THEN DecodeRaised
         ELSE LET cmd == CHOOSE c \in ids : TRUE
                  body == decode_body(Fields(cmd),
                                      SubSeq(data, SMPP_HEADER_SIZE + 1,
                                             command_length), 1) IN
              IF cmd \notin PDU_REGISTRY \/ ~body.ok THEN DecodeRaised
              ELSE Decoded([command_id |-> cmd,
                            command_status |-> CHOOSE st \in statuses : TRUE,
                            sequence_number |-> UnpackWord(data, 13),
                            body |-> body.value], Len(data) + 1)

\* PDU objects given to the codec: str values that are empty, short, as
\* long as the field allows, one longer, with a NUL inside and outside
\* Latin-1; short messages up to 256 bytes; an int that no byte holds and
\* one that is no member of TON.
Chars(n) == [i \in 1..n |-> 65]
StrValues(size) ==
    {<<>>, <<69, 83, 77, 69>>, Chars(size - 1), Chars(size), <<65, 0, 66>>,
     <<65, 8364>>}

CodecPdu(cmd, status, seq, body) ==
    [command_id |-> cmd, command_status |-> status, sequence_number |-> seq,
     body |-> body]

BindPdus ==
    {CodecPdu(cmd, "ESME_ROK", 1,
              <<system_id, password, <<>>, interface_version, ton, 1,
                <<>> >>) :
        cmd \in BindCommands, system_id \in StrValues(16),
        password \in {<<>>, Chars(8), Chars(9)},
        interface_version \in {52, 256}, ton \in {0, 1, 7}}

BindResponsePdus ==
    {CodecPdu(cmd, status, 1, <<system_id, sc_interface_version>>) :
        cmd \in {"bind_transceiver_resp", "bind_transmitter_resp",
                 "bind_receiver_resp"},
        status \in {"ESME_ROK", "ESME_RBINDFAIL"},
        system_id \in {<<>>, <<83, 77, 83, 67>>, Chars(15), Chars(16)},
        sc_interface_version \in {None, 0, 52, 255}}

PlainPdus ==
    {CodecPdu(cmd, status, seq, <<>>) :
        cmd \in {"unbind", "unbind_resp", "enquire_link",
                 "enquire_link_resp", "generic_nack"},
        status \in {"ESME_ROK", "ESME_RINVCMDID"},
        seq \in {0, 1, 65536, 2147483647}}

ShortMessagePdus ==
    {CodecPdu(cmd, "ESME_ROK", 2,
              <<<<>>, ton, 1, source_addr, 1, 1, <<50, 48, 48, 50>>,
                esm_class, 0, 0, <<>>, <<>>, 1, 0, data_coding, 0,
                short_message>>) :
        cmd \in {"submit_sm", "deliver_sm"}, ton \in {0, 5},
        source_addr \in {<<49, 48, 48, 49>>, Chars(20), Chars(21)},
        esm_class \in {0, 4}, data_coding \in {0, 8},
        short_message \in {<<>>, <<72, 105>>, <<0, 255, 0>>,
                           Chars(255), Chars(256)}}

MessageIdPdus ==
    {CodecPdu(cmd, status, 2, <<message_id>>) :
        cmd \in {"submit_sm_resp", "deliver_sm_resp"},
        status \in {"ESME_ROK", "ESME_RSYSERR"},
        message_id \in StrValues(65)}

CodecPdus ==
    BindPdus \cup BindResponsePdus \cup PlainPdus \cup ShortMessagePdus
    \cup MessageIdPdus

\* SMPPCodec.encode is applied to the PDU.
CodecEncode ==
    /\ codec.pc = "pdu"
    /\ codec' = IF encode(codec.pdu).ok
                THEN [codec EXCEPT !.pc = "encoded",
                                   !.data = encode(codec.pdu).data]
                ELSE [codec EXCEPT !.pc = "encode_raised"]
    /\ UNCHANGED <<running, listening, confVars, stream, flowVars,
                   generation, submitter, reader, sessions, transport,
                   sessVars, dispatcher, consumer, queueVars, histVars>>

\* SMPPCodec.decode is applied to the bytes.
CodecDecode ==
    /\ codec.pc = "encoded"
    /\ codec' = IF decode(codec.data).ok
                THEN [codec EXCEPT !.pc = "decoded",
                                   !.decoded = decode(codec.data).value]
                ELSE [codec EXCEPT !.pc = "decode_raised"]
    /\ UNCHANGED <<running, listening, confVars, stream, flowVars,
                   generation, submitter, reader, sessions, transport,
                   sessVars, dispatcher, consumer, queueVars, histVars>>

\* ------------------------------------------------------------ byte stream
\* The bytes of a frame as a peer puts them on the wire: the four header
\* words, with a command_length of its choosing, and the body.
WireFrame(command_length, command_id, seq, body) ==
    PackWord(command_length) \o command_id \o PackWord(0) \o PackWord(seq)
    \o body

\* What a peer sends as its seq-th frame: an unmatched deliver_sm_resp, an
\* enquire_link, a header with command_length 0 or 12, the first sixteen
\* bytes of a frame of twenty, and a header whose command id is not in
\* CommandId.
Pieces(seq) ==
    {WireFrame(17, CommandIdBytes("deliver_sm_resp"), seq, <<0>>),
     WireFrame(16, CommandIdBytes("enquire_link"), seq, <<>>),
     WireFrame(0, CommandIdBytes("enquire_link"), seq, <<>>),
     WireFrame(12, CommandIdBytes("enquire_link"), seq, <<>>),
     WireFrame(20, CommandIdBytes("enquire_link"), seq, <<>>),
     WireFrame(16, <<0, 0, 0, 99>>, seq, <<>>)}

\* The byte streams of one and of two such frames.
Streams ==
    Pieces(1) \cup {p \o q : p \in Pieces(1), q \in Pieces(2)}

\* How many bytes one read_available(4096) may return when more are there.
ReadSizes == {1, 7, 16, 40}

\* Passes of run's loop followed on one connection.
MaxPasses == 4

\* SMPPCodec.get_pdu_length: the first four bytes of the buffer
get_pdu_length(buffer) == UnpackWord(buffer, 1)

\* _read_pdu has to read: its first loop (fewer bytes than a header) or
\* its second (fewer than pdu_length).
NeedsRead(buffer) ==
    IF Len(buffer) < SMPP_HEADER_SIZE THEN TRUE
    ELSE Len(buffer) < get_pdu_length(buffer)

\* A frame reader that forgets what follows the frame.
Cut_DropsRest(buffer, pdu_length) ==
    [pdu_data |-> SubSeq(buffer, 1, pdu_length), buffer |-> <<>>]

\* _read_pdu: pdu_data = _buffer[:pdu_length], _buffer = _buffer[pdu_length:]
Cut(buffer, pdu_length) ==
    [pdu_data |-> SubSeq(buffer, 1, pdu_length),
     buffer |-> SubSeq(buffer, pdu_length + 1, Len(buffer))]

\* The reader's position as the other actions see it.
ReaderOf(buffer) ==
    [buffer |-> Len(buffer),
     pdu_length |-> IF Len(buffer) < SMPP_HEADER_SIZE THEN 0
                    ELSE IF Len(buffer) < get_pdu_length(buffer)
                         THEN get_pdu_length(buffer)
                    ELSE 0]

\* PDUHeader.decode raises ValueError on these sixteen or more bytes: the
\* command id or the status is no member of its enumeration.
HeaderValueError(data) ==
    /\ Len(data) >= SMPP_HEADER_SIZE
    /\ \/ \A cmd \in CommandId : CommandIdBytes(cmd) # SubSeq(data, 5, 8)
       \/ \A st \in CommandStatus :
             PackWord(CommandStatusValue[st]) # SubSeq(data, 9, 12)

\* A decoded PDU without body fields as the session's handlers see it.
AsFrame(pdu) == PDU(pdu.command_id, pdu.command_status, pdu.sequence_number)

\* What run's loop does with the slice pdu_data: ValueError from the
\* header ends the session, SMPPDecodeError is answered with a
\* generic_nack, a decoded PDU goes to _handle_pdu.
ReactBytes(c, pdu_data) ==
    IF HeaderValueError(pdu_data) THEN
        Reaction("fatal", "CLOSED", client_system_id[c], <<>>)
    ELSE IF ~decode(pdu_data).ok THEN
        Reaction("decode_error", state[c], client_system_id[c],
                 <<DecodeErrorNack(pdu_data)>>)
    ELSE React(c, AsFrame(decode(pdu_data).value))

\* The bytes of a submit_sm or deliver_sm from "1001" to "2002" as a peer
\* may send them: any byte for a TON, an NPI and the data_coding, and an
\* sm_length that need not be the number of bytes that follow.
ShortMessageWire(cmd, ton, npi, data_coding, sm_length, short_message) ==
    LET body == <<0, ton, npi, 49, 48, 48, 49, 0, 1, 1, 50, 48, 48, 50, 0,
                  0, 0, 0, 0, 0, 1, 0, data_coding, 0, sm_length>>
                \o short_message IN
    WireFrame(SMPP_HEADER_SIZE + Len(body), CommandIdBytes(cmd), 1, body)

\* The bytes of a bind request of "ESME" with password "pw".
BindWire(cmd, ton, npi) ==
    LET body == <<69, 83, 77, 69, 0, 112, 119, 0, 0, 52, ton, npi, 0>> IN
    WireFrame(SMPP_HEADER_SIZE + Len(body), CommandIdBytes(cmd), 1, body)

\* Bytes for the enumerated fields, members and others, and short messages
\* with the sm_length sent ahead of them.
WireTons == {0, 1, 7, 255}
WireNpis == {1, 2}
WireCodings == {0, 8, 11}
WireMessages == {<<0, <<>> >>, <<2, <<72, 105>> >>, <<3, <<72, 105>> >>,
                 <<255, <<72>> >>}

WireFrames ==
    {ShortMessageWire(cmd, ton, npi, data_coding, m[1], m[2]) :
        cmd \in {"submit_sm", "deliver_sm"}, ton \in WireTons,
        npi \in WireNpis, data_coding \in WireCodings, m \in WireMessages}
    \cup {BindWire(cmd, ton, npi) :
            cmd \in BindCommands, ton \in WireTons, npi \in WireNpis}

\* read_available returns n bytes, or the fewer the peer still sends;
\* _read_pdu adds them to _buffer and sets _last_activity.
StreamRead(c, n) ==
    /\ Reading(c)
    /\ Free(c, "session")
    /\ NeedsRead(stream[c].buffer)
    /\ stream[c].sent < Len(stream[c].bytes)
    /\ LET last == IF stream[c].sent + n < Len(stream[c].bytes)
                   THEN stream[c].sent + n ELSE Len(stream[c].bytes)
           buffer == stream[c].buffer
                     \o SubSeq(stream[c].bytes, stream[c].sent + 1, last) IN
        /\ stream' = [stream EXCEPT ![c].sent = last, ![c].buffer = buffer]
        /\ reader' = [reader EXCEPT ![c] = ReaderOf(buffer)]
    /\ idle' = [idle EXCEPT ![c] = FALSE]
    /\ UNCHANGED <<running, listening, confVars, codec, flowVars, generation,
                   submitter, sessions, transport, state, client_system_id,
                   sequence, pending_responses, futures, keepalive,
                   dispatcher, consumer, queueVars, histVars>>

\* The peer has sent all its bytes and closes its side: read_available
\* returns no bytes, _read_pdu returns None and run leaves its loop.
StreamEof(c) ==
    /\ Reading(c)
    /\ Free(c, "session")
    /\ stream[c].bytes # <<>>
    /\ NeedsRead(stream[c].buffer)
    /\ stream[c].sent = Len(stream[c].bytes)
    /\ Teardown(c)
    /\ UNCHANGED <<running, listening, confVars, codec, stream, generation,
                   submitter, reader, client_system_id, sequence, idle,
                   dispatcher, consumer, queueVars, histVars>>

\* One pass of run's loop that needs no read: the buffer holds a header
\* and pdu_length bytes.  _read_pdu cuts the slice off and gives it to
\* SMPPCodec.decode; run handles what comes back.  The passes followed
\* are those whose handling only writes: a decode error, an unmatched
\* deliver_sm_resp, an enquire_link, a PDU without handler, and the
\* ValueError that ends the session.
StreamPass(c) ==
    /\ Reading(c)
    /\ Free(c, "session")
    /\ ~NeedsRead(stream[c].buffer)
    /\ Len(stream[c].handed) < MaxPasses
    /\ LET cut == Cut(stream[c].buffer, get_pdu_length(stream[c].buffer))
           r == ReactBytes(c, cut.pdu_data) IN
        /\ r.kind \in {"fatal", "decode_error", "ignored", "enquire_link",
                       "unhandled"}
        /\ stream' = [stream EXCEPT
                         ![c].buffer = cut.buffer,
                         ![c].handed = Append(@, cut.pdu_data)]
        /\ reader' = [reader EXCEPT ![c] = ReaderOf(cut.buffer)]
        /\ IF r.kind = "fatal" THEN Teardown(c)
           ELSE /\ in_flight' = IF r.written # <<>>
                                THEN Drain(c, "session") ELSE in_flight
                /\ UNCHANGED <<state, keepalive, futures, pending_responses,
                               sessions, transport, paused>>
    /\ UNCHANGED <<running, listening, confVars, codec, generation,
                   submitter, client_system_id, sequence, idle, dispatcher,
                   consumer, queueVars, histVars>>

\* ------------------------------------------------------------ specification
SessionStep(c) ==
    \/ Connect(c)
    \/ \E frame \in Frames : Recv(c, frame)
    \/ PeerFin(c)
    \/ PeerReset(c)
    \/ ReadError(c)

KeepaliveStep(c) ==
    \/ KeepaliveWake(c)
    \/ KeepaliveResume(c)
    \/ KeepaliveTimeout(c)

DispatcherStep ==
    \/ DispatchGet
    \/ DispatchResume
    \/ DispatchTimeout
    \/ DispatchCancelled

ConsumerStep ==
    \/ ConsumeEvent
    \/ ConsumerResume
    \/ ConsumerCancelled

Next ==
    \/ \E c \in Conns : SessionStep(c)
    \/ \E c \in Conns : Reconnect(c)
    \/ \E c \in Conns : \E h \in LengthFrames : RecvHeader(c, h)
    \/ \E c \in Conns : RecvRest(c)
    \/ StopCancel
    \/ StopReturn
    \/ \E c \in Conns : Pause(c)
    \/ \E c \in Conns : Resume(c)
    \/ CodecEncode
    \/ CodecDecode
    \/ \E c \in Conns : \E n \in ReadSizes : StreamRead(c, n)
    \/ \E c \in Conns : StreamPass(c)
    \/ \E c \in Conns : StreamEof(c)
    \/ \E c \in Conns : KeepaliveStep(c)
    \/ DispatcherStep
    \/ ConsumerStep
    \/ UpstreamForward
    \/ UpstreamSend
    \/ Stop

Spec == Init /\ [][Next]_vars

\* One client: the whole adapter with a single connection.
SoloNext ==
    \/ SessionStep(1)
    \/ KeepaliveStep(1)
    \/ DispatcherStep
    \/ ConsumerStep
    \/ UpstreamForward
    \/ UpstreamSend
    \/ Stop

SoloSpec == Init /\ [][SoloNext]_vars

\* The tasks of the event loop run whenever they can: the keepalive, the
\* dispatcher, the event consumer and main's forwarding loop are scheduled
\* fairly, and a read on a reset connection does raise.  What the peer
\* sends and whether stop() is called is left open.
SoloFairSpec ==
    /\ SoloSpec
    /\ WF_vars(ReadError(1))
    /\ WF_vars(KeepaliveStep(1))
    /\ WF_vars(DispatcherStep)
    /\ WF_vars(ConsumerStep)
    /\ WF_vars(UpstreamForward)

\* Several clients that speak the protocol (binds with the right password,
\* submit_sm, unbind, deliver_sm_resp), close their connections in order
\* and answer the keepalive in time: the sessions, the dispatcher and the
\* event consumer.
DuoFrames ==
    {f \in BindFrames : f.password = "secret"}
    \cup {f \in SubmitFrames : f.text_ok /\ f.registered_delivery = 1}
    \cup {PDU("unbind", "ESME_ROK", s) : s \in PeerSeqs}
    \cup DeliverRespFrames

DuoStep(c) ==
    \/ Connect(c)
    \/ \E frame \in DuoFrames : Recv(c, frame)
    \/ PeerFin(c)

DuoNext ==
    \/ \E c \in Conns : DuoStep(c)
    \/ DispatcherStep
    \/ ConsumerStep
    \/ UpstreamForward
    \/ UpstreamSend
    \/ Stop

DuoSpec == Init /\ [][DuoNext]_vars

\* Two adapters on one event bus: the whole adapter with one client, and
\* the event consumer of a second adapter.
SharedBusNext ==
    \/ SoloNext
    \/ PeerAdapterConsume

SharedBusSpec == Init /\ [][SharedBusNext]_vars

\* One client address: the whole adapter with a single connection id, under
\* which the client connects again after its session has ended.
ReuseNext ==
    \/ SoloNext
    \/ Reconnect(1)

ReuseSpec == Init /\ [][ReuseNext]_vars

\* One client that also sends headers with a wrong command_length; the
\* session and its keepalive, and the server's stop.
FramingNext ==
    \/ SessionStep(1)
    \/ \E h \in LengthFrames : RecvHeader(1, h)
    \/ RecvRest(1)
    \/ KeepaliveStep(1)
    \/ Stop

FramingSpec == Init /\ [][FramingNext]_vars

\* One client and every task of the adapter, with stop() in the two steps
\* between which the listener still accepts.
ShutdownNext ==
    \/ SoloNext
    \/ StopCancel
    \/ StopReturn

ShutdownSpec == Init /\ [][ShutdownNext]_vars

\* One client that speaks the protocol and stays connected but may stop
\* reading for a while, and every task that writes to it.  No session
\* ends before stop(), so no awaited future is cancelled.
BackpressureNext ==
    \/ Connect(1)
    \/ \E frame \in DuoFrames : Recv(1, frame)
    \/ Pause(1)
    \/ Resume(1)
    \/ KeepaliveStep(1)
    \/ DispatchGet
    \/ DispatchResume
    \/ DispatchTimeout
    \/ ConsumeEvent
    \/ ConsumerResume
    \/ UpstreamForward
    \/ UpstreamSend
    \/ Stop

BackpressureSpec == Init /\ [][BackpressureNext]_vars

\* The codec alone: a PDU object is encoded and the bytes are decoded.
CodecInit ==
    /\ AdapterInit
    /\ stream = [c \in Conns |-> NoStream]
    /\ \E pdu \in CodecPdus :
          codec = [pc |-> "pdu", pdu |-> pdu, data |-> <<>>, decoded |-> <<>>]

CodecNext ==
    \/ CodecEncode
    \/ CodecDecode

CodecSpec == CodecInit /\ [][CodecNext]_vars

\* The codec on the bytes of one frame from a peer.
WireInit ==
    /\ AdapterInit
    /\ stream = [c \in Conns |-> NoStream]
    /\ \E data \in WireFrames :
          codec = [pc |-> "encoded", pdu |-> <<>>, data |-> data,
                   decoded |-> <<>>]

WireNext == CodecDecode

WireSpec == WireInit /\ [][WireNext]_vars

\* One client seen byte by byte: it connects, sends its stream in reads of
\* any size and closes its side.
StreamInit ==
    /\ AdapterInit
    /\ codec = NoCodec
    /\ \E bytes \in Streams :
          stream = [c \in Conns |->
                       IF c = 1 THEN [NoStream EXCEPT !.bytes = bytes]
                       ELSE NoStream]

StreamNext ==
    \/ Connect(1)
    \/ \E n \in ReadSizes : StreamRead(1, n)
    \/ StreamPass(1)
    \/ StreamEof(1)

StreamSpec == StreamInit /\ [][StreamNext]_vars

\* ================================================================== claims
Written(r, i) == r.written[i]

\* ---------------------------------------------------------------------- C1
BindRespOf(cmd) ==
    CASE cmd = "bind_transceiver" -> "bind_transceiver_resp"
      [] cmd = "bind_transmitter" -> "bind_transmitter_resp"
      [] cmd = "bind_receiver" -> "bind_receiver_resp"

BoundModeOf(cmd) ==
    CASE cmd = "bind_transceiver" -> "BOUND_TRX"
      [] cmd = "bind_transmitter" -> "BOUND_TX"
      [] cmd = "bind_receiver" -> "BOUND_RX"

\* C1: in OPEN, a bind_transceiver / bind_transmitter / bind_receiver whose
\* credential check succeeds, or with no credential check configured, moves
\* the session to BOUND_TRX / BOUND_TX / BOUND_RX and is answered by exactly
\* the matching bind_*_resp with ESME_ROK, the server's system_id and the
\* request's sequence number.
C1_BindSucceeds ==
    \A c \in Conns : \A f \in BindFrames :
        (/\ Reading(c)
         /\ state[c] = "OPEN"
         /\ (~has_auth \/ f.password = "secret"))
        => LET r == React(c, f) IN
           /\ r.state = BoundModeOf(f.command_id)
           /\ Len(r.written) = 1
           /\ Written(r, 1).command_id = BindRespOf(f.command_id)
           /\ Written(r, 1).command_status = "ESME_ROK"
           /\ Written(r, 1).system_id = "SMSC"
           /\ Written(r, 1).sequence_number = f.sequence_number

\* A session that a bind has moved out of OPEN into receiver mode.
C1_Witness ==
    \E c \in Conns :
        /\ Reading(c)
        /\ state[c] = "BOUND_RX"
        /\ client_system_id[c] = "ESME"

\* ---------------------------------------------------------------------- C2
StateRank(st) ==
    CASE st = "OPEN" -> 0
      [] st \in {"BOUND_TX", "BOUND_RX", "BOUND_TRX"} -> 1
      [] st = "UNBOUND" -> 2
      [] st = "CLOSED" -> 3

\* C2: a session starts in OPEN and its state only ever moves forward along
\* OPEN -> {BOUND_TX, BOUND_RX, BOUND_TRX} -> UNBOUND -> CLOSED: no change
\* from one bound mode to another, none back to OPEN, none from UNBOUND to
\* a bound mode, and none out of CLOSED.
C2_StateOnlyAdvances ==
    [][\A c \in Conns :
          /\ (transport[c] = "none" /\ transport'[c] # "none")
                => state'[c] = "OPEN"
          /\ state'[c] # state[c]
                => StateRank(state[c]) < StateRank(state'[c])]_vars

\* A session that was bound, then unbound, and is still being read.
C2_Witness ==
    \E c \in Conns :
        /\ Reading(c)
        /\ state[c] = "UNBOUND"
        /\ client_system_id[c] = "ESME"

\* ---------------------------------------------------------------------- C3
\* C3: a submit_sm (with a text the handler can decode) is accepted, with
\* an ESME_ROK submit_sm_resp, whenever the session is in BOUND_TX or
\* BOUND_TRX, and in every other state it is answered by a submit_sm_resp
\* with ESME_RINVBNDSTS, the request's sequence number and an empty
\* message_id, the state stays and nothing is enqueued or recorded.
C3_SubmitGating ==
    \A c \in Conns : \A f \in SubmitFrames :
        Reading(c) =>
            LET r == React(c, f) IN
            IF state[c] \in {"BOUND_TX", "BOUND_TRX"} THEN
                f.text_ok =>
                    /\ r.kind = "accepted"
                    /\ Len(r.written) = 1
                    /\ Written(r, 1).command_id = "submit_sm_resp"
                    /\ Written(r, 1).command_status = "ESME_ROK"
            ELSE
                /\ r.kind = "refused"
                /\ r.state = state[c]
                /\ Len(r.written) = 1
                /\ Written(r, 1).command_id = "submit_sm_resp"
                /\ Written(r, 1).command_status = "ESME_RINVBNDSTS"
                /\ Written(r, 1).sequence_number = f.sequence_number
                /\ Written(r, 1).message_id = 0

\* ---------------------------------------------------------------------- C4
SeqSet(q) == {q[i] : i \in 1..Len(q)}

\* This step wrote a deliver_sm on c: the dispatcher or the event consumer
\* now awaits a response on c that it did not await before.
DeliverWritten(c) ==
    \/ /\ dispatcher'.pc = "wait"
       /\ dispatcher'.conn = c
       /\ ~(dispatcher.pc = "wait" /\ dispatcher.conn = c
            /\ dispatcher.seq = dispatcher'.seq)
    \/ /\ consumer'.pc = "wait"
       /\ consumer'.conn = c
       /\ ~(consumer.pc = "wait" /\ consumer.conn = c
            /\ consumer.seq = consumer'.seq)

\* The sessions this step called deliver_message on while going on with a
\* round whose deliver_sm failed or timed out.
TriedInRound ==
    IF /\ dispatcher.pc = "wait"
       /\ dispatcher' # dispatcher
       /\ dispatcher'.pc # "ended"
       /\ delivered_time' = delivered_time
    THEN SeqSet(dispatcher.rest)
         \ (IF dispatcher'.pc = "wait" THEN SeqSet(dispatcher'.rest) ELSE {})
    ELSE {}

\* C4: a deliver_sm (message or receipt) is written only on a session that
\* is in BOUND_RX or BOUND_TRX at that moment; deliver_message called on a
\* session in any other state returns False and writes nothing (no
\* sequence number is used, no response awaited).
C4_DeliverGated ==
    [][\A c \in Conns :
          /\ DeliverWritten(c) => state[c] \in {"BOUND_RX", "BOUND_TRX"}
          /\ (c \in TriedInRound /\ state[c] \notin {"BOUND_RX", "BOUND_TRX"})
                => /\ c \in refused'
                   /\ ~DeliverWritten(c)
                   /\ sequence'[c] = sequence[c]
                   /\ pending_responses'[c] = pending_responses[c]]_vars

\* deliver_message has turned a session away that had been selected as a
\* receiver, and a deliver_sm was written on another one.
C4_Witness ==
    /\ refused # {}
    /\ \E c \in Conns : sequence[c] > 0 /\ c \notin refused

\* ---------------------------------------------------------------------- C5
\* C5: a session that has answered an unbind and entered UNBOUND reaches
\* CLOSED, whether or not the peer sends anything more.
C5_UnbindReachesClosed ==
    \A c \in Conns : (state[c] = "UNBOUND") ~> (state[c] = "CLOSED")

\* ---------------------------------------------------------------------- C6
\* C6: once the keepalive's enquire_link has gone unanswered for the
\* response timeout, the session reaches CLOSED, its connection is closed
\* and it is no longer in the registry, even if the peer stays silent.
C6_KeepaliveTimeoutCloses ==
    \A c \in Conns :
        (keepalive[c].pc = "timed_out")
            ~> (/\ state[c] = "CLOSED"
                /\ transport[c] = "closed"
                /\ ~InSeq(sessions, c))

\* ---------------------------------------------------------------------- C7
\* C7: a bound session that receives a complete frame whose command_id has
\* no PDU variant answers with one generic_nack, ESME_RINVCMDID, carrying
\* the frame's sequence number, and stays open in the same state.
C7_UnknownCommandNacked ==
    \A c \in Conns : \A f \in Frames :
        (/\ Reading(c)
         /\ state[c] \in {"BOUND_TX", "BOUND_RX", "BOUND_TRX"}
         /\ f.command_id \notin PDU_REGISTRY
         /\ f.command_status = "ESME_ROK")
        => LET r == React(c, f) IN
           /\ r.state = state[c]
           /\ Len(r.written) = 1
           /\ Written(r, 1).command_id = "generic_nack"
           /\ Written(r, 1).command_status = "ESME_RINVCMDID"
           /\ Written(r, 1).sequence_number = f.sequence_number

\* ---------------------------------------------------------------------- C8
\* C8: every PDU the session writes in answer to an inbound frame carries
\* that frame's sequence number.
C8_ResponsesEchoSequence ==
    \A c \in Conns : \A f \in Frames :
        Reading(c) =>
            LET r == React(c, f) IN
            \A i \in 1..Len(r.written) :
                Written(r, i).sequence_number = f.sequence_number

\* ---------------------------------------------------------------------- C9
Created(m) == m <= next_message_id

\* C9: while the adapter runs with an event queue, a message is at every
\* moment either still queued (incoming or outgoing), with the dispatcher
\* in a round that awaits a response, delivered, or given up with exactly
\* one MESSAGE_FAILED; one that was given up is not in the outgoing queue,
\* and no message is kept for a round after max_retries failed ones.
C9_FailedRoundsAccounted ==
    \A m \in MsgIds :
        (running /\ has_event_queue /\ Created(m)) =>
            /\ \/ InSeq(incoming, m)
               \/ InSeq(outgoing, m)
               \/ dispatcher.pc = "wait" /\ dispatcher.sms = m
               \/ delivered_time[m]
               \/ emitted[m].failed = 1
            /\ emitted[m].failed <= 1
            /\ emitted[m].failed = 1 => ~InSeq(outgoing, m)
            /\ retry_counts[m] < 3

\* --------------------------------------------------------------------- C10
GoodReceiver(c) ==
    /\ Reading(c)
    /\ state[c] \in {"BOUND_RX", "BOUND_TRX"}

\* C10: while the adapter runs and a session that can receive is bound, a
\* message on the outgoing queue or taken from it and not yet delivered
\* still has a dispatcher that will send it.
C10_ReceiverIsServed ==
    \A m \in MsgIds :
        (/\ running
         /\ \E c \in Conns : GoodReceiver(c)
         /\ InSeq(outgoing, m) \/ dispatcher.sms = m
         /\ ~delivered_time[m]
         /\ emitted[m].failed = 0)
        => dispatcher.pc # "ended"

\* --------------------------------------------------------------------- C11
\* This step consumed the event at the head of the event bus.
Consumed == Len(event_queue') < Len(event_queue)

\* The entry's session is registered, can receive and its connection is up.
Eligible(info) ==
    /\ info.session_id # 0
    /\ InSeq(sessions, info.session_id)
    /\ can_receive(state[info.session_id])
    /\ transport[info.session_id] = "up"

\* C11: consuming a DELIVERED or FAILED event for a message that has a
\* pending-receipt entry whose session can still receive writes one
\* deliver_sm on that session, under the session's next sequence number,
\* with esm_class 4, its source the submit's destination and its
\* destination the submit's source (address, TON and NPI), the event having
\* been emitted before; the entry is removed by that step, and an entry
\* appears only together with a new message id, so that no second receipt
\* follows.
C11_ReceiptSentOnce ==
    [][/\ Consumed =>
            LET m == Head(event_queue).message_id
                info == pending_delivery_reports[m]
                c == info.session_id IN
            /\ emitted[m].delivered + emitted[m].failed > 0
            /\ pending_delivery_reports'[m] = NoReport
            /\ Eligible(info) =>
                  /\ consumer'.pc = "wait"
                  /\ consumer'.conn = c
                  /\ consumer'.seq = sequence[c] + 1
                  /\ sequence'[c] = sequence[c] + 1
                  /\ \A d \in Conns \ {c} : sequence'[d] = sequence[d]
                  /\ consumer'.pdu.command_id = "deliver_sm"
                  /\ consumer'.pdu.sequence_number = consumer'.seq
                  /\ consumer'.pdu.esm_class = 4
                  /\ consumer'.pdu.message_id = m
                  /\ consumer'.pdu.source_addr = messages[m].recipient
                  /\ consumer'.pdu.destination_addr = messages[m].sender
                  /\ consumer'.pdu.source_addr_ton = info.dest_ton
                  /\ consumer'.pdu.source_addr_npi = info.dest_npi
                  /\ consumer'.pdu.dest_addr_ton = info.source_ton
                  /\ consumer'.pdu.dest_addr_npi = info.source_npi
       /\ \A m \in MsgIds :
            /\ (consumer'.pc = "wait" /\ consumer.pc # "wait"
                  /\ consumer'.sms = m)
                  => /\ Consumed
                     /\ Head(event_queue).message_id = m
                     /\ pending_delivery_reports[m] # NoReport
            /\ (pending_delivery_reports[m] = NoReport
                  /\ pending_delivery_reports'[m] # NoReport)
                  => /\ next_message_id' = m
                     /\ next_message_id = m - 1]_vars

\* The receipt of a message has been written on the session that had
\* submitted it and is awaiting its response.
C11_Witness ==
    /\ consumer.pc = "wait"
    /\ consumer.pdu.esm_class = 4
    /\ consumer.pdu.source_addr = "2002"
    /\ consumer.pdu.destination_addr = "1001"
    /\ pending_delivery_reports[consumer.sms] = NoReport
    /\ emitted[consumer.sms].delivered > 0

\* --------------------------------------------------------------------- C12
\* C12: with two adapters on one event bus, a terminal event for a message
\* whose pending-receipt entry this adapter holds, the entry's session
\* being eligible, leaves the bus into this adapter's consumer, which
\* removes the entry and writes the receipt on that session.
C12_HolderSendsReceipt ==
    [][(/\ Consumed
        /\ Eligible(pending_delivery_reports[Head(event_queue).message_id]))
          => LET m == Head(event_queue).message_id IN
             /\ consumer'.pc = "wait"
             /\ consumer'.sms = m
             /\ consumer'.conn = pending_delivery_reports[m].session_id
             /\ consumer'.pdu.esm_class = 4
             /\ pending_delivery_reports'[m] = NoReport]_vars

\* --------------------------------------------------------------------- C13
\* C13: a decoded inbound PDU whose sequence number is that of a pending
\* outbound request is not dispatched (nothing is written, the state
\* stays); the step that completes a promise completes the pending promise
\* registered under the PDU's own sequence number, removes that key and
\* leaves every other promise and key of the session as it was.
C13_ResponseCompletesOwnPromise ==
    [][\A c \in Conns :
          /\ \A f \in Frames :
                (/\ Reading(c)
                 /\ Decode(f) = "ok"
                 /\ f.sequence_number \in pending_responses[c])
                => /\ React(c, f).kind = "matched"
                   /\ React(c, f).written = <<>>
                   /\ React(c, f).state = state[c]
          /\ \A s \in 1..MaxSeq :
                (futures'[c][s].st = "done" /\ futures[c][s].st # "done")
                => /\ futures[c][s].st = "pending"
                   /\ s \in pending_responses[c]
                   /\ s \notin pending_responses'[c]
                   /\ futures'[c][s].pdu.sequence_number = s
                   /\ \A t \in (1..MaxSeq) \ {s} :
                         /\ futures'[c][t] = futures[c][t]
                         /\ t \in pending_responses'[c]
                               <=> t \in pending_responses[c]
                   /\ UNCHANGED <<state, next_message_id, incoming>>]_vars

\* Two requests are outstanding on one session and the response to the
\* later one has arrived first.
C13_Witness ==
    \E c \in Conns :
        /\ futures[c][2].st = "done"
        /\ futures[c][1].st = "pending"
        /\ 1 \in pending_responses[c]

\* --------------------------------------------------------------------- C14
\* The requests that tasks await on session c.
AwaitedOn(c) ==
    (IF dispatcher.pc = "wait" /\ dispatcher.conn = c
     THEN {<<"dispatcher", dispatcher.seq>>} ELSE {})
    \cup (IF consumer.pc = "wait" /\ consumer.conn = c
          THEN {<<"consumer", consumer.seq>>} ELSE {})
    \cup (IF keepalive[c].pc = "wait"
          THEN {<<"keepalive", keepalive[c].seq>>} ELSE {})

\* C14: on each session the counter of outbound sequence numbers starts at
\* 0 and a step uses at most the next number; every request registered by a
\* step (deliver_sm, receipt, enquire_link) carries a number above all
\* those used before on that session, the first being 1; requests awaited
\* at the same time on one session have different numbers.
C14_SequenceNumbersIncrease ==
    [][\A c \in Conns :
          /\ sequence'[c] \in {sequence[c], sequence[c] + 1}
          /\ pending_responses[c] \subseteq 1..sequence[c]
          /\ \A s \in pending_responses'[c] \ pending_responses[c] :
                /\ s = sequence[c] + 1
                /\ s = sequence'[c]
          /\ \A a \in AwaitedOn(c)' \ AwaitedOn(c) :
                /\ a[2] = sequence[c] + 1
                /\ a[2] = sequence'[c]
                /\ (a[1] = "dispatcher") => dispatcher'.pdu.sequence_number = a[2]
                /\ (a[1] = "consumer") => consumer'.pdu.sequence_number = a[2]
          /\ \A a, b \in AwaitedOn(c) : a[2] = b[2] => a = b]_vars

\* A session has sent two requests, numbered 1 and 2, and both are
\* outstanding, awaited by different tasks.
C14_Witness ==
    \E c \in Conns :
        /\ sequence[c] = 2
        /\ pending_responses[c] = {1, 2}
        /\ Cardinality(AwaitedOn(c)) = 2

\* --------------------------------------------------------------------- C15
\* The dispatcher's deliver_message call returns in this step: its task
\* awaited a response and goes on, not being cancelled.
DeliverReturns ==
    /\ dispatcher.pc = "wait"
    /\ dispatcher' # dispatcher
    /\ dispatcher'.pc # "ended"

\* The awaited request was answered by a deliver_sm_resp with ESME_ROK.
AcknowledgedOk ==
    LET fut == futures[dispatcher.conn][dispatcher.seq] IN
    /\ fut.st = "done"
    /\ fut.pdu.sequence_number = dispatcher.seq
    /\ fut.pdu.command_id = "deliver_sm_resp"
    /\ fut.pdu.command_status = "ESME_ROK"

\* C15: deliver_message returns True (the dispatcher stamps delivered_time)
\* exactly when its request was answered by a deliver_sm_resp with
\* ESME_ROK under its sequence number; on a timeout, another status or
\* another PDU type it returns False (the round goes on without the stamp),
\* and after a timeout the sequence number is no longer pending.
C15_DeliverResult ==
    [][/\ \A m \in MsgIds :
             (delivered_time'[m] /\ ~delivered_time[m])
                => /\ DeliverReturns
                   /\ dispatcher.sms = m
                   /\ AcknowledgedOk
       /\ DeliverReturns =>
             LET c == dispatcher.conn
                 s == dispatcher.seq
                 m == dispatcher.sms IN
             /\ futures[c][s].st \in {"done", "pending"}
             /\ futures'[c][s].st = "none"
             /\ AcknowledgedOk => delivered_time'[m]
             /\ ~AcknowledgedOk =>
                   /\ delivered_time' = delivered_time
                   /\ emitted'[m].delivered = emitted[m].delivered
                   /\ \/ dispatcher'.pc = "wait" /\ dispatcher'.sms = m
                      \/ retry_counts'[m] = retry_counts[m] + 1
                      \/ emitted'[m].failed = emitted[m].failed + 1
                      \/ ~has_event_queue /\ retry_counts'[m] = 0
             /\ futures[c][s].st = "pending" => s \notin pending_responses'[c]
       /\ (/\ consumer.pc = "wait"
           /\ consumer'.pc = "get"
           /\ futures[consumer.conn][consumer.seq].st = "pending")
             => consumer.seq \notin pending_responses'[consumer.conn]]_vars

\* A message has been stamped delivered by a session that has sent two
\* requests and awaits none (as when the first deliver_sm of the message
\* timed out and the second was acknowledged).
C15_Witness ==
    \E m \in MsgIds, c \in Conns :
        /\ delivered_time[m]
        /\ retry_counts[m] = 0
        /\ sequence[c] = 2
        /\ keepalive[c].pc = "sleep"
        /\ idle[c] = FALSE
        /\ pending_responses[c] = {}

\* --------------------------------------------------------------------- C16
\* The submit_sm frames session c would accept in this state.
AcceptedNow(c) ==
    {f \in Frames : Reading(c) /\ React(c, f).kind = "accepted"}

SessionEnds(c) ==
    \/ PeerFin(c)
    \/ ReadError(c)
    \/ \E f \in Frames : Decode(f) = "ValueError" /\ Recv(c, f)
    \/ Stop /\ transport[c] # "none"

\* C17: a step that is a terminal condition of a session leaves it CLOSED;
\* the step that makes a session CLOSED ends its keepalive task, leaves no
\* promise of the session pending (a task that awaited one finds it
\* cancelled, or was cancelled itself), empties the pending map, closes the
\* connection and takes the session out of the registry.
C17_TerminalCleanup ==
    [][\A c \in Conns :
          /\ SessionEnds(c) => state'[c] = "CLOSED"
          /\ (state'[c] = "CLOSED" /\ state[c] # "CLOSED")
                => /\ SessionEnds(c)
                   /\ keepalive'[c].pc = "ended"
                   /\ pending_responses'[c] = {}
                   /\ \A s \in 1..MaxSeq :
                         /\ futures'[c][s].st # "pending"
                         /\ (s \in pending_responses[c] /\ DispatcherAwaits(c, s))
                               => \/ futures'[c][s].st = "cancelled"
                                  \/ dispatcher'.pc = "ended"
                         /\ (s \in pending_responses[c] /\ ConsumerAwaits(c, s))
                               => \/ futures'[c][s].st = "cancelled"
                                  \/ consumer'.pc = "ended"
                   /\ transport'[c] = "closed"
                   /\ ~InSeq(sessions', c)]_vars

\* A session has ended while the dispatcher awaited the response to a
\* deliver_sm on it, the server still running.
C17_Witness ==
    \E c \in Conns :
        /\ running
        /\ state[c] = "CLOSED"
        /\ dispatcher.pc = "wait"
        /\ dispatcher.conn = c
        /\ futures[c][dispatcher.seq].st = "cancelled"
        /\ pending_responses[c] = {}

\* --------------------------------------------------------------------- C18
\* This step wrote a receipt for message m: the event consumer now awaits
\* its response.
ReceiptWritten(m) ==
    /\ consumer'.pc = "wait"
    /\ consumer'.sms = m
    /\ consumer # consumer'

\* The session that submitted message m is still the one registered under
\* its connection id, and it can receive.
OriginCanReceive(m) ==
    LET c == pending_delivery_reports[m].session_id IN
    /\ c # 0
    /\ InSeq(sessions, c)
    /\ generation[c] = submitter[m]
    /\ can_receive(state[c])

\* C18: when a terminal event is consumed for a message with a
\* pending-receipt entry whose originating session is gone or cannot
\* receive, the entry is removed and nothing is sent (no sequence number
\* used, no response awaited); a receipt is written only by a step that
\* consumes an event of the message while its originating session is
\* registered and able to receive, and a removed entry does not come back,
\* so none follows later, whoever connects.
C18_ReceiptDropped ==
    [][/\ Consumed =>
            LET m == Head(event_queue).message_id IN
            (pending_delivery_reports[m] # NoReport /\ ~OriginCanReceive(m))
               => /\ pending_delivery_reports'[m] = NoReport
                  /\ ~ReceiptWritten(m)
                  /\ UNCHANGED <<consumer, sequence, pending_responses,
                                 futures, refused>>
       /\ \A m \in MsgIds :
             ReceiptWritten(m)
                => /\ Consumed
                   /\ Head(event_queue).message_id = m
                   /\ OriginCanReceive(m)
       /\ \A m \in MsgIds :
             (Created(m) /\ pending_delivery_reports[m] = NoReport)
                => pending_delivery_reports'[m] = NoReport]_vars

\* --------------------------------------------------------------------- C19
\* C19: the step that accepts a submit_sm creates the pending-receipt
\* entry of the new message exactly when bit 0 of registered_delivery is
\* set, and no other step creates an entry; a receipt is written only for
\* a message that has an entry, so a message submitted without the bit is
\* never followed by a receipt, whatever events are emitted for it.
C19_EntryIffRequested ==
    [][/\ (next_message_id' # next_message_id /\ outgoing' = outgoing)
             => \A c \in Conns : \A f \in AcceptedNow(c) :
                   Recv(c, f)
                   => LET mid == next_message_id + 1 IN
                      /\ pending_delivery_reports'[mid] # NoReport
                            <=> f.registered_delivery \in {1, 3}
                      /\ pending_delivery_reports'[mid] # NoReport
                            => pending_delivery_reports'[mid].session_id = c
       /\ \A m \in MsgIds :
             /\ (/\ pending_delivery_reports[m] = NoReport
                 /\ pending_delivery_reports'[m] # NoReport)
                   => \E c \in Conns : \E f \in AcceptedNow(c) :
                         /\ m = next_message_id + 1
                         /\ f.registered_delivery \in {1, 3}
                         /\ Recv(c, f)
             /\ ReceiptWritten(m) => pending_delivery_reports[m] # NoReport
             /\ (/\ Consumed
                 /\ Head(event_queue).message_id = m
                 /\ pending_delivery_reports[m] = NoReport)
                   => UNCHANGED <<consumer, sequence, pending_responses,
                                  futures>>]_vars

\* A transceiver's message, submitted without the bit, has been delivered
\* back to it and the event consumed: the deliver_sm of the message is the
\* only request the session was ever sent.
C19_Witness ==
    \E m \in MsgIds :
        /\ messages[m].sender = "1001"
        /\ emitted[m].delivered = 1
        /\ event_queue = <<>>
        /\ consumer.pc = "get"
        /\ pending_delivery_reports[m] = NoReport
        /\ state[1] = "BOUND_TRX"
        /\ generation[1] = 1
        /\ sequence[1] = 1

\* --------------------------------------------------------------------- C20
\* The position of session c in the registry (0: not registered).
RegistryIndex(c) ==
    IF InSeq(sessions, c)
    THEN CHOOSE i \in 1..Len(sessions) : sessions[i] = c
    ELSE 0

\* C20: a round starts with the deliver_sm written on the first session in
\* registry order that can receive (those before it whose connection is
\* reset aside), the receivers registered after it being kept for later in
\* that order; the step in which a deliver_message returns ok ends the
\* round: no session is sent anything more, one MESSAGE_DELIVERED is
\* emitted for the message when an event queue is configured, its retry
\* counter is cleared and the outgoing queue is left as it was, without
\* the message.
C20_FirstOkEndsRound ==
    [][/\ (dispatcher.pc = "get" /\ dispatcher'.pc = "wait")
             => LET c == dispatcher'.conn IN
                /\ dispatcher'.sms = Head(outgoing)
                /\ can_receive(state[c])
                /\ RegistryIndex(c) > 0
                /\ \A d \in Conns :
                      (RegistryIndex(d) > 0 /\ can_receive(state[d]))
                         => IF RegistryIndex(d) < RegistryIndex(c)
                            THEN /\ transport[d] # "up"
                                 /\ ~InSeq(dispatcher'.rest, d)
                            ELSE d = c \/ InSeq(dispatcher'.rest, d)
                /\ \A i, j \in 1..Len(dispatcher'.rest) :
                      i < j => RegistryIndex(dispatcher'.rest[i])
                                  < RegistryIndex(dispatcher'.rest[j])
       /\ \A m \in MsgIds :
             (delivered_time'[m] /\ ~delivered_time[m])
                => /\ dispatcher.pc = "wait"
                   /\ dispatcher.sms = m
                   /\ dispatcher' = IdleTask
                   /\ UNCHANGED <<sequence, pending_responses, outgoing>>
                   /\ \A d \in Conns : ~DeliverWritten(d)
                   /\ ~InSeq(outgoing', m)
                   /\ retry_counts'[m] = 0
                   /\ has_event_queue
                         => /\ emitted'[m].delivered = emitted[m].delivered + 1
                            /\ emitted'[m].failed = emitted[m].failed
                            /\ event_queue' =
                                  Append(event_queue,
                                         Event("MESSAGE_DELIVERED", m))]_vars

\* Two receivers are registered; the first in the registry acknowledged
\* the message and the second was sent nothing.
C20_Witness ==
    \E m \in MsgIds :
        /\ Len(sessions) = 2
        /\ \A c \in Conns : can_receive(state[c])
        /\ delivered_time[m]
        /\ emitted[m].delivered = 1
        /\ sequence[sessions[1]] = 1
        /\ sequence[sessions[2]] = 0
        /\ retry_counts[m] = 0
        /\ outgoing = <<>>
        /\ dispatcher = IdleTask

\* --------------------------------------------------------------------- C21
\* C21: when the header at the start of the buffer announces a
\* command_length above 65535, the session is closed by that step, nothing
\* is written, and the reader does not wait for command_length bytes.
C21_TooLargeCloses ==
    [][\A c \in Conns : \A h \in LengthFrames :
          (h.command_length > 65535 /\ RecvHeader(c, h))
             => /\ ReadHeader(c, h).reaction.written = <<>>
                /\ state'[c] = "CLOSED"
                /\ reader'[c].pdu_length = 0]_vars

\* --------------------------------------------------------------------- C22
\* C22: when the header at the start of the buffer announces a
\* command_length below 16, the session is closed by that step and no PDU
\* is written in answer.
C22_ShortFrameCloses ==
    [][\A c \in Conns : \A h \in LengthFrames :
          (h.command_length < 16 /\ RecvHeader(c, h))
             => /\ ReadHeader(c, h).reaction.written = <<>>
                /\ state'[c] = "CLOSED"]_vars

\* --------------------------------------------------------------------- C23
\* Frames with a well-formed header and a known command whose body cannot
\* be decoded.
MalformedBodyFrames ==
    {f \in Frames : /\ f.command_id \in PDU_REGISTRY
                    /\ f.command_status \in CommandStatus
                    /\ ~f.body_ok}

\* C23: a frame with a known command_id whose body cannot be decoded is
\* answered with one generic_nack of status ESME_RINVCMDID; the session's
\* state and recorded system_id are unchanged, the session is still being
\* read at a frame boundary, and every frame that follows gets the reaction
\* it would have got without the malformed one.
C23_MalformedBodyNacked ==
    [][\A c \in Conns : \A f \in MalformedBodyFrames :
          Recv(c, f)
             => /\ Len(React(c, f).written) = 1
                /\ Written(React(c, f), 1).command_id = "generic_nack"
                /\ Written(React(c, f), 1).command_status = "ESME_RINVCMDID"
                /\ state'[c] = state[c]
                /\ client_system_id'[c] = client_system_id[c]
                /\ Reading(c)'
                /\ AtFrameStart(c)'
                /\ \A g \in Frames : React(c, g)' = React(c, g)]_vars

\* A bound session, waiting for the answer to its own enquire_link, on
\* which a submit_sm with a truncated body is a decode error.
C23_Witness ==
    \E c \in Conns : \E f \in MalformedBodyFrames :
        /\ Reading(c)
        /\ AtFrameStart(c)
        /\ state[c] = "BOUND_TRX"
        /\ pending_responses[c] # {}
        /\ f.command_id = "submit_sm"
        /\ React(c, f).kind = "decode_error"

\* --------------------------------------------------------------------- C24
\* C24: a bind received in OPEN that the configured credential check
\* rejects is answered with exactly the matching bind_*_resp of status
\* ESME_RBINDFAIL; the session stays in OPEN, still read, with no client
\* system_id recorded, and every bind with accepted credentials that comes
\* next is answered ESME_ROK and binds the session in its mode.
C24_RejectedBindStaysOpen ==
    [][\A c \in Conns : \A f \in BindFrames :
          (/\ state[c] = "OPEN"
           /\ has_auth
           /\ f.password # "secret"
           /\ Recv(c, f))
          => /\ Len(React(c, f).written) = 1
             /\ Written(React(c, f), 1).command_id = BindRespOf(f.command_id)
             /\ Written(React(c, f), 1).command_status = "ESME_RBINDFAIL"
             /\ state'[c] = "OPEN"
             /\ client_system_id'[c] = ""
             /\ Reading(c)'
             /\ AtFrameStart(c)'
             /\ \A g \in BindFrames :
                   g.password = "secret"
                   => /\ (React(c, g).state)' = BoundModeOf(g.command_id)
                      /\ (React(c, g).client_system_id)' = g.system_id
                      /\ (Written(React(c, g), 1).command_status)'
                            = "ESME_ROK"]_vars

\* A session in OPEN behind a credential check, after a frame has been
\* read from it, for which a bind with the wrong password is refused.
C24_Witness ==
    \E c \in Conns : \E f \in BindFrames :
        /\ Reading(c)
        /\ AtFrameStart(c)
        /\ state[c] = "OPEN"
        /\ has_auth
        /\ ~idle[c]
        /\ f.password = "wrong"
        /\ Written(React(c, f), 1).command_status = "ESME_RBINDFAIL"

\* --------------------------------------------------------------------- C25
\* C25: a bind read on a session in BOUND_TX, BOUND_RX or BOUND_TRX is
\* answered with exactly the matching bind_*_resp of status ESME_RALYBND
\* and changes neither the state nor the recorded client system_id.
C25_BindWhileBound ==
    \A c \in Conns : \A f \in BindFrames :
        (/\ Reading(c)
         /\ AtFrameStart(c)
         /\ state[c] \in {"BOUND_TX", "BOUND_RX", "BOUND_TRX"})
        => LET r == React(c, f) IN
           /\ Len(r.written) = 1
           /\ Written(r, 1).command_id = BindRespOf(f.command_id)
           /\ Written(r, 1).command_status = "ESME_RALYBND"
           /\ r.state = state[c]
           /\ r.client_system_id = client_system_id[c]

\* --------------------------------------------------------------------- C26
\* Submits whose text the submit handler cannot decode: the handler raises.
RaisingSubmits == {f \in SubmitFrames : ~f.text_ok}

\* C26: when a submit_sm passed to the submit handler on a session in
\* BOUND_TX or BOUND_TRX makes the handler raise, exactly one submit_sm_resp
\* is written, with ESME_RSYSERR, the request's sequence number and an
\* empty message_id (0: no message); the session keeps its state and is still read, and
\* nothing is enqueued.
C26_HandlerErrorAnswered ==
    [][\A c \in Conns : \A f \in RaisingSubmits :
          (/\ state[c] \in {"BOUND_TX", "BOUND_TRX"}
           /\ f.sequence_number \notin pending_responses[c]
           /\ Recv(c, f))
          => /\ Len(React(c, f).written) = 1
             /\ Written(React(c, f), 1).command_id = "submit_sm_resp"
             /\ Written(React(c, f), 1).command_status = "ESME_RSYSERR"
             /\ Written(React(c, f), 1).sequence_number = f.sequence_number
             /\ Written(React(c, f), 1).message_id = 0
             /\ state'[c] = state[c]
             /\ Reading(c)'
             /\ AtFrameStart(c)'
             /\ incoming' = incoming
             /\ next_message_id' = next_message_id]_vars

\* A session bound as transmitter with a request of its own outstanding,
\* on which a submit_sm with undecodable text reaches the handler.
C26_Witness ==
    \E c \in Conns : \E f \in RaisingSubmits :
        /\ Reading(c)
        /\ AtFrameStart(c)
        /\ state[c] = "BOUND_TX"
        /\ pending_responses[c] # {}
        /\ React(c, f).kind = "error"

\* --------------------------------------------------------------------- C29
EnquireLinkFrames ==
    {f \in Frames : /\ f.command_id = "enquire_link"
                    /\ f.command_status \in CommandStatus}

\* C29: an enquire_link read in OPEN, BOUND_TX, BOUND_RX, BOUND_TRX or
\* UNBOUND is answered with exactly one enquire_link_resp that carries its
\* sequence number, and the session state stays as it is.
C29_EnquireLinkAnswered ==
    \A c \in Conns : \A f \in EnquireLinkFrames :
        (Reading(c) /\ AtFrameStart(c))
        => LET r == React(c, f) IN
           /\ Len(r.written) = 1
           /\ Written(r, 1).command_id = "enquire_link_resp"
           /\ Written(r, 1).sequence_number = f.sequence_number
           /\ r.state = state[c]

\* --------------------------------------------------------------------- C27
\* What stop() leaves behind according to C27.
Stopped ==
    /\ ~running
    /\ sessions = <<>>
    /\ dispatcher.pc = "ended"
    /\ consumer.pc \in {"none", "ended"}
    /\ \A c \in Conns :
          transport[c] # "none"
          => /\ state[c] = "CLOSED"
             /\ transport[c] = "closed"
             /\ keepalive[c].pc = "ended"

\* C27: at the step in which stop() returns, every session that was ever
\* started is CLOSED with its connection closed and its tasks ended, the
\* registry is empty, the dispatcher and the event consumer have ended and
\* the adapter is not running.
C27_StopJoinsSessions ==
    [][(Stop \/ StopReturn) => Stopped']_vars

\* --------------------------------------------------------------------- C28
\* C28: on every connection at most one task at a time is inside
\* Connection.write: no task starts a write while the write of another
\* task on the same connection has not been flushed.  (The order on the
\* wire is the order of the writer.write calls, each of which hands over
\* a whole PDU; it is the exclusion that is stated here.)
C28_OneWriteInFlight ==
    \A c \in Conns : Cardinality(in_flight[c]) <= 1

\* A PDU object whose fields fit the wire format: every str is Latin-1
\* without NUL and shorter than its field, the short message has at most
\* 255 bytes, every int is a byte and a member of its enumeration.
FieldFits(f, v) ==
    IF f.kind \in {"c_octet_string", "optional_c_octet_string"} THEN
        Len(v) < f.size /\ \A i \in 1..Len(v) : v[i] \in 1..255
    ELSE IF f.kind = "short_message" THEN
        Len(v) <= 255 /\ \A i \in 1..Len(v) : v[i] \in 0..255
    ELSE IF f.kind = "sc_interface_version" THEN v \in {None} \cup (0..255)
    ELSE IF f.kind = "TON" THEN v \in TON
    ELSE IF f.kind = "NPI" THEN v \in NPI
    ELSE IF f.kind = "DataCoding" THEN v \in DataCoding
    ELSE v \in 0..255

FitsWire(pdu) ==
    \A i \in 1..Len(pdu.body) :
        FieldFits(Fields(pdu.command_id)[i], pdu.body[i])

CodecDone == codec.pc \in {"encode_raised", "decode_raised", "decoded"}

RECURSIVE Flatten(_)
Flatten(slices) ==
    IF slices = <<>> THEN <<>> ELSE Head(slices) \o Flatten(Tail(slices))

\* The slices handed over so far and the buffer make up the bytes read, and
\* every slice has the length its first four bytes in the stream give.
SlicesInOrder(c) ==
    /\ Flatten(stream[c].handed) \o stream[c].buffer
          = SubSeq(stream[c].bytes, 1, stream[c].sent)
    /\ \A i \in 1..Len(stream[c].handed) :
          Len(stream[c].handed[i])
             = UnpackWord(stream[c].bytes,
                          Len(Flatten(SubSeq(stream[c].handed, 1, i - 1))) + 1)

\* C31: however the stream is split into reads, the slices given to the
\* codec are the consecutive command_length-sized slices of the stream,
\* each once and in order, with the rest kept in the buffer; and a read
\* that returns no bytes ends the session.
C31_ReaderSlicesStream ==
    [][/\ SlicesInOrder(1)'
       /\ StreamEof(1) => state'[1] = "CLOSED" /\ ~InSeq(sessions', 1)]_vars

\* A read ended inside the second frame: the first frame was handed over
\* whole and the bytes after it wait in the buffer.
C31_Witness ==
    /\ Len(stream[1].handed) = 1
    /\ Len(stream[1].handed[1]) = 17
    /\ Len(stream[1].buffer) \in 1..15
    /\ SlicesInOrder(1)

\* --------------------------------------------------------------------- C32
\* C32: a submit_sm or deliver_sm whose sm_length is above the number of
\* bytes that are left in the body does not decode.
C32_OverrunFails ==
    \A cmd \in {"submit_sm", "deliver_sm"}, m \in WireMessages :
        /\ codec.pc \in {"decoded", "decode_raised"}
        /\ codec.data = ShortMessageWire(cmd, 1, 1, 0, m[1], m[2])
        /\ m[1] > Len(m[2])
        => codec.pc = "decode_raised"

\* --------------------------------------------------------------------- C33
\* C33: a PDU whose TON, NPI or data_coding byte is no member of the
\* enumeration decodes, and the decoded PDU holds the byte.
C33_RawEnumsKept ==
    /\ \A cmd \in {"submit_sm", "deliver_sm"}, ton \in WireTons,
          npi \in WireNpis, data_coding \in WireCodings :
          /\ codec.pc \in {"decoded", "decode_raised"}
          /\ codec.data
                = ShortMessageWire(cmd, ton, npi, data_coding, 2, <<72, 105>>)
          => /\ codec.pc = "decoded"
             /\ codec.decoded.body[2] = ton
             /\ codec.decoded.body[3] = npi
             /\ codec.decoded.body[15] = data_coding
    /\ \A cmd \in BindCommands, ton \in WireTons, npi \in WireNpis :
          /\ codec.pc \in {"decoded", "decode_raised"}
          /\ codec.data = BindWire(cmd, ton, npi)
          => /\ codec.pc = "decoded"
             /\ codec.decoded.body[5] = ton
             /\ codec.decoded.body[6] = npi

\* --------------------------------------------------------------------- C34
\* C34: the pending-responses map of a session holds only the sequence
\* numbers of requests whose sender is awaiting the response: once a
\* request has finished, by a response, a timeout or a failed write, its
\* entry is gone.
C34_PendingOnlyAwaited ==
    \A c \in Conns : \A s \in pending_responses[c] :
        DispatcherAwaits(c, s) \/ ConsumerAwaits(c, s) \/ KeepaliveAwaits(c, s)

\* --------------------------------------------------------------------- C35
\* C35: while the adapter is running, neither the outbound dispatcher nor
\* the event consumer has terminated, whatever sessions closed while a
\* deliver_sm or a receipt was awaiting its response.
C35_WorkersStayAlive ==
    running => dispatcher.pc # "ended" /\ consumer.pc # "ended"

\* --------------------------------------------------------------------- C36
\* C36: a submit_sm read on a session in BOUND_TX or BOUND_TRX is answered
\* with exactly one submit_sm_resp carrying its sequence number, whatever
\* that number is and whatever requests of the server are pending.
C36_SubmitAlwaysAnswered ==
    \A c \in Conns : \A f \in SubmitFrames :
        Reading(c) /\ state[c] \in {"BOUND_TX", "BOUND_TRX"}
            => /\ Len(React(c, f).written) = 1
               /\ Written(React(c, f), 1).command_id = "submit_sm_resp"
               /\ Written(React(c, f), 1).sequence_number = f.sequence_number

\* --------------------------------------------------------------------- C37
\* C37: every pass of the read loop that gives a slice to the codec, be it
\* a frame or a decode error, leaves the read buffer shorter than it found
\* it.
C37_PassConsumesBytes ==
    [][StreamPass(1) => Len(stream'[1].buffer) < Len(stream[1].buffer)]_vars

\* --------------------------------------------------------------------- C38
\* C38: for a message put once on the outgoing queue at most one terminal
\* event, MESSAGE_DELIVERED or MESSAGE_FAILED, is ever emitted; once it is
\* emitted the message is not in the outgoing queue and has no retry
\* counter.
C38_OneTerminalEvent ==
    \A m \in MsgIds :
        /\ emitted[m].delivered + emitted[m].failed <= 1
        /\ emitted[m].delivered + emitted[m].failed = 1
              => ~InSeq(outgoing, m) /\ retry_counts[m] = 0

\* A message was given up with MESSAGE_FAILED after its last failed round.
C38_Witness ==
    \E m \in MsgIds :
        /\ Created(m)
        /\ emitted[m].failed = 1
        /\ emitted[m].delivered = 0
        /\ retry_counts[m] = 0
        /\ ~InSeq(outgoing, m)

\* --------------------------------------------------------------------- C39
\* C39: a receipt awaiting its response was written on the session that
\* submitted the message, not on a later session registered under the same
\* connection id.
C39_ReceiptOnSubmitter ==
    consumer.pc = "wait"
        => generation[consumer.conn] = submitter[consumer.sms]

\* --------------------------------------------------------------------- C40
\* The inbound PDUs that are responses: bit 31 of the command id is set.
ResponseFrames ==
    {f \in Frames : f.command_id \in {"bind_receiver_resp",
        "bind_transmitter_resp", "bind_transceiver_resp", "unbind_resp",
        "submit_sm_resp", "deliver_sm_resp", "enquire_link_resp",
        "generic_nack"}}

\* C40: the session writes nothing in reply to an inbound response PDU,
\* and one that matches no pending request leaves the session as it was.
C40_NoReplyToResponse ==
    \A c \in Conns : \A f \in ResponseFrames :
        Reading(c) /\ Decode(f) = "ok"
            => /\ React(c, f).written = <<>>
               /\ ~MatchesPending(c, f)
                     => /\ React(c, f).state = state[c]
                        /\ React(c, f).client_system_id = client_system_id[c]

====
